---- MODULE Spec2Model ----
(***************************************************************************)
(* Sketch-to-Sky backend: the wing geometry pipeline.                      *)
(*                                                                         *)
(*   ai/extraction.py      generate_3d_model: cached dataset, prompt       *)
(*                         parser, validator, profile decoder, lofted mesh *)
(*                         builder, cleanup, GLB export.                   *)
(*   services/services.py  generate_and_upload_wing: validator, profile    *)
(*                         decoder, export_3d_wing (convex hull), upload.  *)
(*                                                                         *)
(* Real numbers are fixed-point integers: the value v stands for v / FP.   *)
(* Mesh coordinates are exact rationals kept as numerators over a          *)
(* denominator that is common to one axis of one mesh; coincidence and     *)
(* zero area do not depend on that per-axis scale.                         *)
(***************************************************************************)
EXTENDS Integers, Sequences, FiniteSets, TLC

----------------------------------------------------------------------------
(* Bounds of the model.                                                    *)

\* stations per wing; stands for NUM_SPAN_SECTIONS = 24 and n_span = 20
MaxSections == 4
\* samples of x_calc = linspace(0, 1, n); stands for 120 and 100
NumSamples == 2
\* concurrent callers
NumThreads == 2
\* wall-clock seconds that can pass (timestamps of the file names)
MaxClock == 1

----------------------------------------------------------------------------
(* Program constants.                                                      *)

\* fixed-point denominator: a float v is the integer v * FP; one unit is 0.025
FP == 40

\* np.clip(chord_lengths, 0.05, None): 0.05 in units of 1 / FP
CHORD_MIN == 2
\* THICKNESS_FACTOR = 0.08 = THICKNESS_NUM / 25
THICKNESS_NUM == 2
\* THICKNESS_VISUAL_FACTOR = 100.0
THICKNESS_VISUAL_FACTOR == 100
\* SCALING_FACTOR = 1_000_000.0
SCALING_FACTOR == 1000000
\* power = 30 - i
TOP_POWER == 30
\* NUM_SPAN_SECTIONS = 24 and n_span = 20, bounded by MaxSections
NUM_SPAN_SECTIONS == MaxSections
n_span == MaxSections

R(n) == n * FP

Abs(n) == IF n < 0 THEN -n ELSE n
Max(a, b) == IF a >= b THEN a ELSE b

None == "None"

----------------------------------------------------------------------------
(* Wing parameter validators.                                              *)

\* mutation of _validate_params: root chord test `< 0` instead of `<= 0`
_validate_params_strict(params) ==
    IF params.root_chord < 0 THEN "root chord must be positive"
    ELSE IF params.semi_span <= 0 THEN "semi span must be positive"
    ELSE IF params.taper_ratio <= 0 THEN "taper ratio must be positive"
    ELSE IF ~(-R(90) <= params.sweep_angle_deg /\ params.sweep_angle_deg <= R(90))
         THEN "sweep angle must be between -90 and 90 degrees"
    ELSE None

\* extraction.py _validate_params: the ExtractionError raised, or None
_validate_params(params) ==
    IF params.root_chord <= 0 THEN "root chord must be positive"
    ELSE IF params.semi_span <= 0 THEN "semi span must be positive"
    ELSE IF params.taper_ratio <= 0 THEN "taper ratio must be positive"
    ELSE IF ~(-R(90) <= params.sweep_angle_deg /\ params.sweep_angle_deg <= R(90))
         THEN "sweep angle must be between -90 and 90 degrees"
    ELSE None

\* services.py validate_wing_parameters: the ValueError raised, or None
\* (the function returns True)
validate_wing_parameters(wing_dims) ==
    LET cr == wing_dims.root_chord
        sem_span == wing_dims.semi_span
        sweep_deg == wing_dims.sweep_angle_deg
        taper_ratio == wing_dims.taper_ratio
    IN  IF cr <= 0 THEN "'root_chord' must be positive"
        ELSE IF sem_span <= 0 THEN "'semi_span' must be positive"
        ELSE IF taper_ratio <= 0 THEN "'taper_ratio' must be greater than 0"
        ELSE IF ~(-R(90) <= sweep_deg /\ sweep_deg <= R(90))
             THEN "'sweep_angle_deg' must be between -90 and 90 degrees"
        ELSE None

----------------------------------------------------------------------------
(* Prompt parser (extraction.py _parse_prompt).                            *)
(*                                                                         *)
(* A prompt is the sequence of the lexical items of prompt.lower(): a      *)
(* number literal \d+(\.\d+)? with its value, or a word / punctuation      *)
(* mark.  Items are separated by optional white space only, so a regular   *)
(* expression of the parser matches a run of adjacent items.               *)

Num(v) == [k |-> "num", v |-> v]
W(s) == [k |-> "w", s |-> s]

IsNum(tokens, i) == i >= 1 /\ i <= Len(tokens) /\ tokens[i].k = "num"
IsWord(tokens, i, words) ==
    i >= 1 /\ i <= Len(tokens) /\ tokens[i].k = "w" /\ tokens[i].s \in words

\* (\d+(?:\.\d+)?)\s*(?:<units>)?\s*(?:<head>): number, optional unit, head
\* words; the head is one word (span) or two (root chord)
MatchNumberBefore(tokens, i, units, head) ==
    /\ IsNum(tokens, i)
    /\ \/ \A j \in 1..Len(head) : IsWord(tokens, i + j, head[j])
       \/ /\ IsWord(tokens, i + 1, units)
          /\ \A j \in 1..Len(head) : IsWord(tokens, i + 1 + j, head[j])

\* <key>(?:\s*<opt>)?[:=]\s*(\d+(?:\.\d+)?): key word, optional second
\* word, a colon or equals sign, number; the result is the number of words
\* in front of the sign, 0 when there is no match at item i
KeyValueWords(tokens, i, key, opt) ==
    IF ~IsWord(tokens, i, key) THEN 0
    ELSE IF IsWord(tokens, i + 1, {":", "="}) /\ IsNum(tokens, i + 2) THEN 1
    ELSE IF /\ IsWord(tokens, i + 1, opt)
            /\ IsWord(tokens, i + 2, {":", "="})
            /\ IsNum(tokens, i + 3) THEN 2
    ELSE 0

\* one regular expression of _find: whether it matches at item i, and the
\* value of the captured number group(1)
PatternMatches(tokens, i, pat) ==
    IF pat.kind = "before"
    THEN MatchNumberBefore(tokens, i, pat.units, pat.head)
    ELSE KeyValueWords(tokens, i, pat.key, pat.opt) # 0

PatternGroup(tokens, i, pat) ==
    IF pat.kind = "before" THEN tokens[i].v
    ELSE tokens[i + KeyValueWords(tokens, i, pat.key, pat.opt) + 1].v

\* re.search: the leftmost match of the pattern, 0 when there is none
Search(tokens, pat) ==
    LET hits == {i \in 1..Len(tokens) : PatternMatches(tokens, i, pat)}
    IN  IF hits = {} THEN 0
        ELSE CHOOSE i \in hits : \A j \in hits : i <= j

\* _find: the first pattern, in order, that matches anywhere; else default
RECURSIVE _find(_, _, _)
_find(tokens, patterns, default) ==
    IF patterns = <<>> THEN default
    ELSE LET at == Search(tokens, Head(patterns))
         IN  IF at # 0 THEN PatternGroup(tokens, at, Head(patterns))
             ELSE _find(tokens, Tail(patterns), default)

LengthUnits == {"m", "meter", "meters"}
AngleUnits == {"deg", "degrees"}

SpanPatterns ==
    << [kind |-> "before", units |-> LengthUnits, head |-> <<{"wingspan", "span"}>>],
       [kind |-> "key", key |-> {"wingspan", "span"}, opt |-> {}] >>
RootChordPatterns ==
    << [kind |-> "before", units |-> LengthUnits, head |-> <<{"root"}, {"chord"}>>],
       [kind |-> "key", key |-> {"chord"}, opt |-> {}] >>
SweepPatterns ==
    << [kind |-> "before", units |-> AngleUnits, head |-> <<{"sweep"}>>],
       [kind |-> "key", key |-> {"sweep"}, opt |-> {}] >>
TaperPatterns ==
    << [kind |-> "key", key |-> {"taper"}, opt |-> {"ratio"}] >>

\* mutation of _parse_prompt: the lower clamps are dropped
_parse_prompt_unclamped(prompt) ==
    LET span_val == _find(prompt, SpanPatterns, R(10))
        root_chord_val == _find(prompt, RootChordPatterns, R(2))
        sweep_val == _find(prompt, SweepPatterns, R(25))
        taper_val == _find(prompt, TaperPatterns, R(1) \div 2)
    IN  [root_chord |-> root_chord_val,
         semi_span |-> span_val \div 2,
         sweep_angle_deg |-> sweep_val,
         taper_ratio |-> taper_val]

\* _parse_prompt; number literals of the model's prompts are even multiples
\* of 1/FP, so span_val / 2.0 is exact
_parse_prompt(prompt) ==
    LET span_val == _find(prompt, SpanPatterns, R(10))
        root_chord_val == _find(prompt, RootChordPatterns, R(2))
        sweep_val == _find(prompt, SweepPatterns, R(25))
        taper_val == _find(prompt, TaperPatterns, R(1) \div 2)
        semi_span == Max(span_val \div 2, R(1))
        taper_ratio == Max(taper_val, R(1) \div 10)
        root_chord == Max(root_chord_val, R(1) \div 2)
        sweep_angle == sweep_val
    IN  [root_chord |-> root_chord,
         semi_span |-> semi_span,
         sweep_angle_deg |-> sweep_angle,
         taper_ratio |-> taper_ratio]

----------------------------------------------------------------------------
(* Dataset table and airfoil profile decoder.                              *)

AIRFOIL_NAME == "2032c"

\* a missing or unparsable cell of the CSV: pandas reads it as float nan
NaN == -999999999

\* highest power whose coefficient is non-zero in the model's tables
MaxPower == 2

RECURSIVE Pow(_, _)
Pow(b, e) == IF e = 0 THEN 1 ELSE b * Pow(b, e - 1)

\* a row of 31 coefficients, Python index i = 0..30 at position i + 1; only
\* the three lowest powers are non-zero
Coeffs(c2, c1, c0) ==
    [i \in 1..(TOP_POWER + 1) |->
        IF i = TOP_POWER - 1 THEN c2
        ELSE IF i = TOP_POWER THEN c1
        ELSE IF i = TOP_POWER + 1 THEN c0
        ELSE 0]

\* np.linspace(0.0, 1.0, n): the numerators k of k / (n - 1)
x_calc(n) == [k \in 1..n |-> k - 1]

\* _evaluate_polynomial / calculate_polynomial_y at x = xk / xden; the
\* result is the numerator over xden ^ MaxPower.  nan in any coefficient
\* makes every sample nan (nan * 0 = nan)
_evaluate_polynomial(xk, xden, coefficients) ==
    LET term(i) ==
            LET power == TOP_POWER - (i - 1)
            IN  IF coefficients[i] = 0 THEN 0
                ELSE coefficients[i] * Pow(xk, power) * Pow(xden, MaxPower - power)
        sum[i \in 0..Len(coefficients)] ==
            IF i = 0 THEN 0 ELSE sum[i - 1] + term(i)
    IN  IF \E i \in 1..Len(coefficients) : coefficients[i] = NaN THEN NaN
        ELSE sum[Len(coefficients)]

Reverse(seq) == [i \in 1..Len(seq) |-> seq[Len(seq) + 1 - i]]

\* tables the CSV file can hold, by name; the upper coefficients carry the
\* factor SCALING_FACTOR of the source table
Rows(table) ==
    CASE table = "slab" ->
            << [airfoilName |-> AIRFOIL_NAME,
                upper |-> Coeffs(0, 0, SCALING_FACTOR), lower |-> Coeffs(0, 0, -1)] >>
      [] table = "sharp" ->
            << [airfoilName |-> "0012",
                upper |-> Coeffs(0, 0, 0), lower |-> Coeffs(0, 0, 0)],
               [airfoilName |-> AIRFOIL_NAME,
                upper |-> Coeffs(0, SCALING_FACTOR, 0), lower |-> Coeffs(0, -1, 0)] >>
      [] table = "flat" ->
            << [airfoilName |-> AIRFOIL_NAME,
                upper |-> Coeffs(0, 0, 0), lower |-> Coeffs(0, 0, 0)] >>
      [] table = "nan" ->
            << [airfoilName |-> AIRFOIL_NAME,
                upper |-> Coeffs(0, 0, SCALING_FACTOR), lower |-> Coeffs(0, 0, NaN)] >>
      [] table = "other" ->
            << [airfoilName |-> "0012",
                upper |-> Coeffs(0, 0, SCALING_FACTOR), lower |-> Coeffs(0, 0, -1)] >>
      [] table = "no_column" ->
            << [name |-> AIRFOIL_NAME,
                upper |-> Coeffs(0, 0, SCALING_FACTOR), lower |-> Coeffs(0, 0, -1)] >>

\* "airfoilName" is a column of the table: df["airfoilName"] raises KeyError
\* when it is not
HasNameColumn(df) == \A i \in 1..Len(Rows(df)) : "airfoilName" \in DOMAIN Rows(df)[i]

\* a DataFrame variable holds None or (the name of) a table
\* df[df["airfoilName"] == AIRFOIL_NAME]
AirfoilRows(df) ==
    SelectSeq(Rows(df), LAMBDA row : row.airfoilName = AIRFOIL_NAME)

NoProfile == [x |-> <<>>, z |-> <<>>, xden |-> 1]

\* mutation of ProfileLoop: the lower surface is divided by SCALING_FACTOR
\* too
ProfileLoopBothScaled(row, n) ==
    LET xs == x_calc(n)
        xden == n - 1
        scaled(coefficients) ==
            [k \in 1..n |->
                LET y == _evaluate_polynomial(xs[k], xden, coefficients)
                IN  IF y = NaN THEN NaN ELSE y \div SCALING_FACTOR]
    IN  [x |-> Reverse(xs) \o xs,
         z |-> Reverse(scaled(row.upper)) \o scaled(row.lower),
         xden |-> xden]

\* the closed loop built by both decoders from the first matching row:
\* upper surface reversed (scaled by 1 / SCALING_FACTOR), then lower surface.
\* The upper coefficients of the model's tables are multiples of
\* SCALING_FACTOR, so the division is exact
ProfileLoop(row, n) ==
    LET xs == x_calc(n)
        xden == n - 1
        y_upper_scaled ==
            [k \in 1..n |->
                LET y == _evaluate_polynomial(xs[k], xden, row.upper)
                IN  IF y = NaN THEN NaN ELSE y \div SCALING_FACTOR]
        y_lower_scaled ==
            [k \in 1..n |-> _evaluate_polynomial(xs[k], xden, row.lower)]
    IN  [x |-> Reverse(xs) \o xs,
         z |-> Reverse(y_upper_scaled) \o y_lower_scaled,
         xden |-> xden]

\* extraction.py _get_airfoil_profile: the profile, or the ExtractionError
\* (kind ExtractionError) or the KeyError of the column lookup
_get_airfoil_profile(df) ==
    IF ~HasNameColumn(df)
    THEN [err |-> "airfoilName", kind |-> "KeyError", profile |-> NoProfile]
    ELSE IF AirfoilRows(df) = <<>>
    THEN [err |-> "Airfoil not found in dataset", kind |-> "ExtractionError",
          profile |-> NoProfile]
    ELSE [err |-> None, kind |-> None,
          profile |-> ProfileLoop(AirfoilRows(df)[1], NumSamples)]

\* services.py get_airfoil_coords: the profile, or (None, None), or the
\* KeyError of the column lookup
get_airfoil_coords(df) ==
    IF df = None THEN [found |-> FALSE, raised |-> FALSE, profile |-> NoProfile]
    ELSE IF ~HasNameColumn(df)
    THEN [found |-> FALSE, raised |-> TRUE, profile |-> NoProfile]
    ELSE IF AirfoilRows(df) = <<>>
    THEN [found |-> FALSE, raised |-> FALSE, profile |-> NoProfile]
    ELSE [found |-> TRUE, raised |-> FALSE,
          profile |-> ProfileLoop(AirfoilRows(df)[1], NumSamples)]

----------------------------------------------------------------------------
(* Spanwise lofting and the lofted quad-strip mesh (_build_wing_mesh).     *)
(*                                                                         *)
(* Denominators, common to a mesh: y over FP * D, chord over FP * FP * D,  *)
(* x over xden * FP * FP * D * TAN_DEN, z over 25 * FP * FP * D * zden,    *)
(* with D = n_sections - 1.                                                *)

\* math.tan of the sweep angles of the model, as TanNum / TAN_DEN
TAN_DEN == 15
TanNum(sweep_angle_deg) ==
    CASE sweep_angle_deg = 0 -> 0
      [] sweep_angle_deg = R(25) -> 7
      [] sweep_angle_deg = -R(25) -> -7
      [] sweep_angle_deg = R(45) -> 15
      [] sweep_angle_deg = -R(45) -> -15

\* np.linspace(-semi_span, semi_span, n): numerators over FP * (n - 1)
y_positions(params, n) ==
    [idx \in 1..n |-> params.semi_span * (2 * (idx - 1) - (n - 1))]

\* y_abs / semi_span: numerators over n - 1
y_fraction(n) == [idx \in 1..n |-> Abs(2 * (idx - 1) - (n - 1))]

\* mutation of chord_lengths: np.clip is dropped
chord_lengths_unclipped(params, n) ==
    [idx \in 1..n |->
        params.root_chord * (FP * (n - 1) - (FP - params.taper_ratio) * y_fraction(n)[idx])]

\* root_chord * (1 - (1 - taper_ratio) * (y_abs / semi_span)), clipped from
\* below at 0.05: numerators over FP * FP * (n - 1)
chord_lengths(params, n) ==
    [idx \in 1..n |->
        Max(params.root_chord
              * (FP * (n - 1) - (FP - params.taper_ratio) * y_fraction(n)[idx]),
            CHORD_MIN * FP * (n - 1))]

\* math.cos of the sweep angles of the model, as CosNum / TAN_DEN
CosNum(sweep_angle_deg) ==
    CASE sweep_angle_deg = 0 -> 15
      [] sweep_angle_deg \in {R(25), -R(25)} -> 14
      [] sweep_angle_deg \in {R(45), -R(45)} -> 11

\* mutation of leading_edge_offsets: math.cos in place of math.tan
leading_edge_offsets_cos(params, n) ==
    [idx \in 1..n |->
        Abs(y_positions(params, n)[idx]) * CosNum(params.sweep_angle_deg)]

\* y_abs * tan(sweep_angle_rad): numerators over FP * (n - 1) * TAN_DEN
leading_edge_offsets(params, n) ==
    [idx \in 1..n |->
        Abs(y_positions(params, n)[idx]) * TanNum(params.sweep_angle_deg)]

\* one station: np.column_stack((x_coords, y_coords, z_coords))
Section(profile, chord, x_le, y_val) ==
    [pt \in 1..Len(profile.x) |->
        << profile.x[pt] * chord * TAN_DEN + x_le * profile.xden * FP,
           y_val,
           IF profile.z[pt] = NaN THEN NaN
           ELSE profile.z[pt] * chord * THICKNESS_NUM >>]

RECURSIVE Flatten(_)
Flatten(seqs) == IF seqs = <<>> THEN <<>> ELSE Head(seqs) \o Flatten(Tail(seqs))

\* np.vstack of the sections, in the order of y_positions
WingVertices(profile, params, n) ==
    Flatten([idx \in 1..n |->
        Section(profile, chord_lengths(params, n)[idx],
                leading_edge_offsets(params, n)[idx],
                y_positions(params, n)[idx])])

\* the two triangles of one quad
QuadFaces(v0, v1, v2, v3) == << <<v0, v1, v2>>, <<v2, v1, v3>> >>

\* mutation of StripFaces: the closing quad of the loop is left out
StripFacesOpen(sec, num_points) ==
    LET start_curr == sec * num_points
        start_next == (sec + 1) * num_points
    IN  Flatten([p \in 1..(num_points - 1) |->
                    QuadFaces(start_curr + (p - 1), start_next + (p - 1),
                              start_curr + (p - 1) + 1, start_next + (p - 1) + 1)])

\* mutation of StripFaces: the closing quad indexes one past the section
StripFacesOffByOne(sec, num_points) ==
    LET start_curr == sec * num_points
        start_next == (sec + 1) * num_points
    IN  Flatten([p \in 1..(num_points - 1) |->
                    QuadFaces(start_curr + (p - 1), start_next + (p - 1),
                              start_curr + (p - 1) + 1, start_next + (p - 1) + 1)])
        \o QuadFaces(start_curr + num_points - 1, start_next + num_points - 1,
                     start_curr + num_points, start_next + num_points)

\* mutation of StripFaces: the closing quad is wound the other way
StripFacesWrapReversed(sec, num_points) ==
    LET start_curr == sec * num_points
        start_next == (sec + 1) * num_points
    IN  Flatten([p \in 1..(num_points - 1) |->
                    QuadFaces(start_curr + (p - 1), start_next + (p - 1),
                              start_curr + (p - 1) + 1, start_next + (p - 1) + 1)])
        \o QuadFaces(start_curr + num_points - 1, start_curr,
                     start_next + num_points - 1, start_next)

\* the body of `for sec in range(n_sections - 1)`: the quads pt, pt + 1 for
\* pt in range(num_points - 1), then the quad closing the loop
StripFaces(sec, num_points) ==
    LET start_curr == sec * num_points
        start_next == (sec + 1) * num_points
    IN  Flatten([p \in 1..(num_points - 1) |->
                    QuadFaces(start_curr + (p - 1), start_next + (p - 1),
                              start_curr + (p - 1) + 1, start_next + (p - 1) + 1)])
        \o QuadFaces(start_curr + num_points - 1, start_next + num_points - 1,
                     start_curr, start_next)

\* faces: vertex indices are 0-based, as in the code
WingFaces(n_sections, num_points) ==
    Flatten([s \in 1..(n_sections - 1) |-> StripFaces(s - 1, num_points)])

\* trimesh.Trimesh(vertices=vertices, faces=np.array(faces), process=False)
LoftedMesh(profile, params, n) ==
    [vertices |-> WingVertices(profile, params, n),
     faces |-> WingFaces(n, Len(profile.x))]

EmptyMesh == [vertices |-> <<>>, faces |-> <<>>]

----------------------------------------------------------------------------
(* Mesh cleanup (trimesh.Trimesh methods called by _build_wing_mesh).      *)

RECURSIVE GCD(_, _)
GCD(a, b) == IF b = 0 THEN Abs(a) ELSE GCD(b, a % b)

\* the elements of seq at the positions in keep, in order
KeepAt(seq, keep) ==
    LET acc[i \in 0..Len(seq)] ==
            IF i = 0 THEN <<>>
            ELSE IF i \in keep THEN Append(acc[i - 1], seq[i])
            ELSE acc[i - 1]
    IN  acc[Len(seq)]

\* vertex with the 0-based index v
Vertex(mesh, v) == mesh.vertices[v + 1]

IsFiniteVertex(vertex) == vertex[3] # NaN

\* u x v = 0, the two vectors first divided, axis by axis, by the common
\* divisor of their components (zero area does not depend on axis scale)
CrossIsZero(u, v) ==
    LET g == [k \in 1..3 |-> Max(GCD(Abs(u[k]), Abs(v[k])), 1)]
        a == [k \in 1..3 |-> u[k] \div g[k]]
        b == [k \in 1..3 |-> v[k] \div g[k]]
    IN  /\ a[2] * b[3] = a[3] * b[2]
        /\ a[3] * b[1] = a[1] * b[3]
        /\ a[1] * b[2] = a[2] * b[1]

\* triangles.nondegenerate: a face is kept when both edges of its bounding
\* box are longer than tol.merge; a face of zero area, or one whose area is
\* nan, is not kept
IsDegenerate(mesh, face) ==
    LET a == Vertex(mesh, face[1])
        b == Vertex(mesh, face[2])
        c == Vertex(mesh, face[3])
    IN  \/ face[1] = face[2] \/ face[2] = face[3] \/ face[1] = face[3]
        \/ ~IsFiniteVertex(a) \/ ~IsFiniteVertex(b) \/ ~IsFiniteVertex(c)
        \/ CrossIsZero([k \in 1..3 |-> b[k] - a[k]], [k \in 1..3 |-> c[k] - a[k]])

\* Trimesh.update_faces(mask)
update_faces(mesh, keep) ==
    [mesh EXCEPT !.faces = KeepAt(mesh.faces, keep)]

\* the default inverse of update_vertices: the rank of a kept vertex among
\* the kept ones, 0 for a dropped one (np.zeros, then inverse[mask] = arange)
DefaultInverse(mesh, mask) ==
    [v \in 0..(Len(mesh.vertices) - 1) |->
        IF v \in mask THEN Cardinality({w \in mask : w < v}) ELSE 0]

\* Trimesh.update_vertices(mask, inverse): faces are re-indexed through
\* inverse, then the vertices outside the mask are dropped
update_vertices(mesh, mask, inverse) ==
    IF mesh.vertices = <<>> \/ mask = 0..(Len(mesh.vertices) - 1) THEN mesh
    ELSE [vertices |-> KeepAt(mesh.vertices, {v + 1 : v \in mask}),
          faces |-> [f \in 1..Len(mesh.faces) |->
                        << inverse[mesh.faces[f][1]],
                           inverse[mesh.faces[f][2]],
                           inverse[mesh.faces[f][3]] >>]]

\* mutation of remove_degenerate_faces: only repeated indices are degenerate
remove_degenerate_faces_by_index(mesh) ==
    update_faces(mesh, {f \in 1..Len(mesh.faces) :
        Cardinality({mesh.faces[f][1], mesh.faces[f][2], mesh.faces[f][3]}) = 3})

\* Trimesh.remove_degenerate_faces()
remove_degenerate_faces(mesh) ==
    update_faces(mesh, {f \in 1..Len(mesh.faces) : ~IsDegenerate(mesh, mesh.faces[f])})

FaceKey(face) == {face[1], face[2], face[3]}

\* Trimesh.remove_duplicate_faces(): of the faces with the same vertex set
\* the first is kept
remove_duplicate_faces(mesh) ==
    update_faces(mesh, {f \in 1..Len(mesh.faces) :
        \A g \in 1..(f - 1) : FaceKey(mesh.faces[g]) # FaceKey(mesh.faces[f])})

\* Trimesh.remove_infinite_values(): faces are integers, all finite; the
\* vertices with a non-finite coordinate are dropped
remove_infinite_values(mesh) ==
    LET vertex_mask == {v \in 0..(Len(mesh.vertices) - 1) :
                            IsFiniteVertex(Vertex(mesh, v))}
    IN  update_vertices(mesh, vertex_mask, DefaultInverse(mesh, vertex_mask))

Referenced(mesh) ==
    {mesh.faces[f][k] : f \in 1..Len(mesh.faces), k \in 1..3}

\* mutation of remove_unreferenced_vertices: nothing is dropped
remove_unreferenced_vertices_noop(mesh) == mesh

\* Trimesh.remove_unreferenced_vertices()
remove_unreferenced_vertices(mesh) ==
    LET referenced == Referenced(mesh)
    IN  update_vertices(mesh, referenced, DefaultInverse(mesh, referenced))

\* Trimesh.fix_normals(): the winding of some faces is reversed; which ones
\* follows from face adjacency and the sign of the enclosed volume
fix_normals(mesh, flip) ==
    [mesh EXCEPT !.faces =
        [f \in 1..Len(mesh.faces) |->
            IF f \in flip
            THEN <<mesh.faces[f][3], mesh.faces[f][2], mesh.faces[f][1]>>
            ELSE mesh.faces[f]]]

\* fix_normals is a function of the mesh; the functions the model follows
\* reverse no face, every face, or the first face
NormalsRules == {"none", "all", "first"}

FlipOf(rule, mesh) ==
    CASE rule = "none" -> {}
      [] rule = "all" -> 1..Len(mesh.faces)
      [] rule = "first" -> 1..Len(mesh.faces) \cap {1}

\* the outcomes of fix_normals on a mesh
FlipChoices(mesh) == {FlipOf(rule, mesh) : rule \in NormalsRules}

\* the first of the vertices in among that lie at the position of vertex v
FirstAt(mesh, among, v) ==
    LET same == {w \in among : Vertex(mesh, w) = Vertex(mesh, v)}
    IN  CHOOSE w \in same : \A u \in same : w <= u

\* mutation of merge_vertices: unreferenced vertices are kept
merge_vertices_keep_unreferenced(mesh) ==
    LET all == 0..(Len(mesh.vertices) - 1)
        mask == {FirstAt(mesh, all, v) : v \in all}
        inverse == [v \in all |->
                      Cardinality({w \in mask : w < FirstAt(mesh, all, v)})]
    IN  update_vertices(mesh, mask, inverse)

\* Trimesh.merge_vertices(): the referenced vertices at the same position
\* are merged into the first of them; unreferenced vertices are dropped
merge_vertices(mesh) ==
    LET referenced == Referenced(mesh)
        mask == {FirstAt(mesh, referenced, v) : v \in referenced}
        inverse == [v \in 0..(Len(mesh.vertices) - 1) |->
                      IF v \in referenced
                      THEN Cardinality({w \in mask :
                                          w < FirstAt(mesh, referenced, v)})
                      ELSE 0]
    IN  update_vertices(mesh, mask, inverse)

\* the cleanup calls of _build_wing_mesh, in the order of the code
CleanupSteps ==
    << "remove_degenerate_faces", "remove_duplicate_faces",
       "remove_infinite_values", "remove_unreferenced_vertices",
       "fix_normals", "merge_vertices" >>

\* one cleanup call applied to the mesh
CleanupStep(name, mesh, flip) ==
    CASE name = "remove_degenerate_faces" -> remove_degenerate_faces(mesh)
      [] name = "remove_duplicate_faces" -> remove_duplicate_faces(mesh)
      [] name = "remove_infinite_values" -> remove_infinite_values(mesh)
      [] name = "remove_unreferenced_vertices" -> remove_unreferenced_vertices(mesh)
      [] name = "fix_normals" -> fix_normals(mesh, flip)
      [] name = "merge_vertices" -> merge_vertices(mesh)

\* lines 207-214 of _build_wing_mesh: every cleanup call, in order
RECURSIVE Cleanup(_, _, _)
Cleanup(steps, mesh, flip) ==
    IF steps = <<>> THEN mesh
    ELSE Cleanup(Tail(steps), CleanupStep(Head(steps), mesh, flip), flip)

\* _build_wing_mesh, lines 165-167: the ExtractionError raised, or None
BuildError(profile) ==
    IF Len(profile.x) < 4 THEN "Insufficient airfoil resolution to build mesh"
    ELSE None

\* _build_wing_mesh, lines 169-214: the mesh returned
_build_wing_mesh(profile, params, n, flip) ==
    Cleanup(CleanupSteps, LoftedMesh(profile, params, n), flip)

----------------------------------------------------------------------------
(* services.py export_3d_wing: lofted point cloud, convex hull, metrics.   *)

\* np.linspace(0, sem_span, n_span): numerators over FP * (n - 1)
y_span_right(sem_span, n) == [i \in 1..n |-> sem_span * (i - 1)]

\* cr * (1 - (1 - taper_ratio) * (y_span_right / sem_span)): numerators over
\* FP * FP * (n - 1); there is no clip here
chord_at_y(cr, taper_ratio, n) ==
    [i \in 1..n |-> cr * (FP * (n - 1) - (FP - taper_ratio) * (i - 1))]

\* y_span_right * np.tan(sweep_rad)
x_LE_at_y(sem_span, sweep_deg, n) ==
    [i \in 1..n |-> y_span_right(sem_span, n)[i] * TanNum(sweep_deg)]

\* current_station_points of station i
StationPoints(profile, c_i, x_LE_i, y_i) ==
    [pt \in 1..Len(profile.x) |->
        << profile.x[pt] * c_i * TAN_DEN + x_LE_i * profile.xden * FP,
           y_i,
           IF profile.z[pt] = NaN THEN NaN
           ELSE profile.z[pt] * c_i * THICKNESS_VISUAL_FACTOR >>]

\* step 1: all points of the right half
RightVertices(profile, cr, sem_span, sweep_deg, taper_ratio, n) ==
    Flatten([i \in 1..n |->
        StationPoints(profile, chord_at_y(cr, taper_ratio, n)[i],
                      x_LE_at_y(sem_span, sweep_deg, n)[i],
                      y_span_right(sem_span, n)[i])])

\* mutation of left_vertices: every station is mirrored, y = 0 included
left_vertices_all(all_vertices) ==
    [i \in 1..Len(all_vertices) |->
        <<all_vertices[i][1], -all_vertices[i][2], all_vertices[i][3]>>]

\* mutation of left_vertices: x is negated together with y
left_vertices_flip_x(all_vertices) ==
    LET kept == SelectSeq(all_vertices, LAMBDA v : v[2] > 0)
    IN  [i \in 1..Len(kept) |-> <<-kept[i][1], -kept[i][2], kept[i][3]>>]

\* step 2: [[v[0], -v[1], v[2]] for v in all_vertices if v[1] > 0]
left_vertices(all_vertices) ==
    LET kept == SelectSeq(all_vertices, LAMBDA v : v[2] > 0)
    IN  [i \in 1..Len(kept) |-> <<kept[i][1], -kept[i][2], kept[i][3]>>]

\* the vertex cloud handed to trimesh.Trimesh(vertices=vertices).convex_hull
CloudVertices(profile, cr, sem_span, sweep_deg, taper_ratio, n) ==
    LET right == RightVertices(profile, cr, sem_span, sweep_deg, taper_ratio, n)
    IN  right \o left_vertices(right)

\* the metrics computed by export_3d_wing: total_span over FP, wing_area
\* over 2 * FP^3, aspect_ratio as the fraction ar_num / ar_den. The division
\* has no guard: it raises ZeroDivisionError when wing_area is 0
ExportMetrics(cr, sem_span, taper_ratio) ==
    LET total_span == sem_span * 2
        tip_chord == cr * taper_ratio
        wing_area == (cr * FP + tip_chord) * total_span
    IN  [total_span |-> total_span,
         wing_area |-> wing_area,
         raised |-> wing_area = 0,
         has_ar |-> wing_area # 0,
         ar_num |-> total_span * total_span * 2 * FP,
         ar_den |-> wing_area]

NoMetrics ==
    [total_span |-> 0, wing_area |-> 0, raised |-> FALSE, has_ar |-> FALSE,
     ar_num |-> 0, ar_den |-> 1]

\* mutation of tip_chord: the root chord, untapered
tip_chord_untapered(params) == params.root_chord * FP

\* WingParameters.tip_chord, over FP * FP
tip_chord(params) == params.root_chord * params.taper_ratio

\* the metadata of generate_3d_model: wing_area = semi_span * (root_chord +
\* tip_chord) over FP^3; aspect_ratio is None unless wing_area > 0
ExtractionMetadata(params) ==
    LET total_span == params.semi_span * 2
        wing_area == params.semi_span * (params.root_chord * FP + tip_chord(params))
    IN  [total_span |-> total_span,
         wing_area |-> wing_area,
         has_ar |-> wing_area > 0,
         ar_num |-> IF wing_area > 0 THEN total_span * total_span * FP ELSE 0,
         ar_den |-> IF wing_area > 0 THEN wing_area ELSE 1]

NoMetadata == [total_span |-> 0, wing_area |-> 0, has_ar |-> FALSE, ar_num |-> 0, ar_den |-> 1]

----------------------------------------------------------------------------
(* State.                                                                  *)

VARIABLES
    app,            \* the running program: "extraction" or "service"
    csv_exists,     \* CSV_PATH.exists() / os.path.exists(AIRFOIL_FILE)
    archive,        \* archive.zip: "missing", "bad", "no_member" or "ok"
    csv_file,       \* what pd.read_csv finds in the CSV file
    _df_cache,      \* extraction.py _df_cache
    reads,          \* executions of pd.read_csv by _load_dataset
    extracts,       \* executions of archive.extract by _load_dataset
    clock,          \* wall clock, in seconds
    generated,      \* GENERATED_DIR: file name (its timestamp) -> content
    started,        \* service: the controller's startup event has run
    df_airfoils,    \* services.py df_airfoils
    storage_client, \* services.py storage_client is not None
    gemini_client,  \* services.py gemini_client is not None
    tmp_files,      \* the NamedTemporaryFile paths that exist
    bucket,         \* blobs of GCS_BUCKET_NAME
    requests,       \* requests received so far
    th,             \* one record per caller thread
    geo,            \* a single run of the geometry pipeline, step by step
    val,            \* a single run of the validators
    web             \* a single run of a web handler or of a pure function

vars == << app, csv_exists, archive, csv_file, _df_cache, reads, extracts,
           clock, generated, started, df_airfoils, storage_client,
           gemini_client, tmp_files, bucket, requests, th, geo, val, web >>

fsVars == << csv_exists, archive, csv_file >>
extractionVars == << _df_cache, reads, extracts, generated >>
serviceVars == << started, df_airfoils, storage_client, gemini_client,
                  tmp_files, bucket >>
pipelineVars == << app, csv_exists, archive, csv_file, _df_cache, reads,
                   extracts, clock, generated, started, df_airfoils,
                   storage_client, gemini_client, tmp_files, bucket,
                   requests, th >>

----------------------------------------------------------------------------
(* Inputs of the model.                                                    *)

\* requests the callers send in one behaviour
MaxRequests == 2

Threads == 1..NumThreads

\* prompts sent to generate_3d_model, by name
PromptText(prompt) ==
    CASE prompt = "plain" -> << W("a"), W("swept"), W("wing") >>
      [] prompt = "keyed" ->
            << W("span"), W(":"), Num(R(2)), W(","), W("chord"), W("="),
               Num(R(1)), W(","), W("sweep"), W(":"), Num(0), W(","),
               W("taper"), W("ratio"), W(":"), Num(R(1)) >>
      [] prompt = "natural" ->
            << Num(R(4)), W("m"), W("wingspan"), W(","), Num(2), W("m"),
               W("root"), W("chord"), W(","), Num(R(45)), W("degrees"),
               W("sweep"), W(","), W("taper"), W("="), Num(0) >>
      [] prompt = "steep" -> << Num(R(91)), W("deg"), W("sweep") >>

Prompts == {"keyed", "steep"}

Params(root_chord, semi_span, sweep_angle_deg, taper_ratio) ==
    [root_chord |-> root_chord, semi_span |-> semi_span,
     sweep_angle_deg |-> sweep_angle_deg, taper_ratio |-> taper_ratio]

NoParams == Params(0, 0, 0, 0)

\* parameter sets the language model can answer with
GeminiAnswers ==
    { Params(R(2), R(5), R(25), R(1) \div 2),
      Params(R(2), R(5), R(91), R(1) \div 2),
      Params(0, R(5), R(25), R(1) \div 2) }

----------------------------------------------------------------------------
(* Caller threads.                                                         *)

NoFile == [by |-> 0, params |-> NoParams, table |-> None, writes |-> 0]

NoOut == [status |-> "none", detail |-> None, file |-> -1, metadata |-> NoMetadata]

IdleThread ==
    [pc |-> "idle", kind |-> "none", prompt |-> None, df |-> None,
     params |-> NoParams, validated |-> FALSE, vparams |-> NoParams,
     has_profile |-> FALSE, built |-> FALSE, lparams |-> NoParams,
     policy |-> "none", tmp |-> 0, out |-> NoOut]

Raise(t, status, detail) ==
    [th EXCEPT ![t].pc = "done",
               ![t].out = [NoOut EXCEPT !.status = status, !.detail = detail]]

At(t, kind, pc) == th[t].kind = kind /\ th[t].pc = pc

----------------------------------------------------------------------------
(* extraction.py generate_3d_model, one caller thread t.                   *)

\* generate_3d_model(prompt) is entered: _ensure_directories()
GenerateStart(t) ==
    /\ app = "extraction"
    /\ th[t].pc = "idle"
    /\ requests < MaxRequests
    /\ requests' = requests + 1
    /\ \E prompt \in Prompts :
          th' = [th EXCEPT ![t] = [IdleThread EXCEPT !.pc = "load_check",
                                                     !.kind = "extraction",
                                                     !.prompt = prompt]]
    /\ UNCHANGED << app, fsVars, extractionVars, clock, serviceVars, geo, val, web >>

\* mutation of LoadCheck: the cache is not consulted
LoadCheckAlways(t) ==
    /\ At(t, "extraction", "load_check")
    /\ th' = [th EXCEPT ![t].pc = "load_file"]
    /\ UNCHANGED << app, fsVars, extractionVars, clock, serviceVars, requests,
                    geo, val, web >>

\* _load_dataset, line 57: if _df_cache is not None: return _df_cache
LoadCheck(t) ==
    /\ At(t, "extraction", "load_check")
    /\ th' = IF _df_cache # None
             THEN [th EXCEPT ![t].pc = "parse", ![t].df = _df_cache]
             ELSE [th EXCEPT ![t].pc = "load_file"]
    /\ UNCHANGED << app, fsVars, extractionVars, clock, serviceVars, requests,
                    geo, val, web >>

\* _load_dataset, lines 60-62: CSV_PATH.exists(), ARCHIVE_PATH.exists()
LoadFile(t) ==
    /\ At(t, "extraction", "load_file")
    /\ th' = IF csv_exists THEN [th EXCEPT ![t].pc = "load_read"]
             ELSE IF archive = "missing"
             THEN Raise(t, "ExtractionError", "Required archive not found")
             ELSE [th EXCEPT ![t].pc = "load_extract"]
    /\ UNCHANGED << app, fsVars, extractionVars, clock, serviceVars, requests,
                    geo, val, web >>

\* _load_dataset, lines 63-71: the CSV file is extracted from the archive
LoadExtract(t) ==
    /\ At(t, "extraction", "load_extract")
    /\ IF archive = "bad"
       THEN /\ th' = Raise(t, "ExtractionError", "Failed to extract airfoil data")
            /\ UNCHANGED << csv_exists, extracts >>
       ELSE IF archive = "no_member"
       THEN /\ th' = Raise(t, "ExtractionError", "Archive does not contain the file")
            /\ UNCHANGED << csv_exists, extracts >>
       ELSE /\ th' = [th EXCEPT ![t].pc = "load_read"]
            /\ csv_exists' = TRUE
            /\ extracts' = extracts + 1
    /\ UNCHANGED << app, archive, csv_file, _df_cache, reads, generated, clock,
                    serviceVars, requests, geo, val, web >>

\* _load_dataset, lines 73-77: _df_cache = pd.read_csv(CSV_PATH)
LoadRead(t) ==
    /\ At(t, "extraction", "load_read")
    /\ reads' = reads + 1
    /\ IF csv_file # "unreadable"
       THEN /\ _df_cache' = csv_file
            /\ th' = [th EXCEPT ![t].pc = "parse", ![t].df = csv_file]
       ELSE /\ UNCHANGED _df_cache
            /\ th' = Raise(t, "ExtractionError", "Unable to read airfoil dataset")
    /\ UNCHANGED << app, fsVars, extracts, generated, clock, serviceVars,
                    requests, geo, val, web >>

\* line 223: params = _parse_prompt(prompt)
Parse(t) ==
    /\ At(t, "extraction", "parse")
    /\ th' = [th EXCEPT ![t].pc = "validate",
                        ![t].params = _parse_prompt(PromptText(th[t].prompt))]
    /\ UNCHANGED << app, fsVars, extractionVars, clock, serviceVars, requests,
                    geo, val, web >>

\* mutation of Validate: the validator is not called
ValidateSkipped(t) ==
    /\ At(t, "extraction", "validate")
    /\ th' = [th EXCEPT ![t].pc = "profile"]
    /\ UNCHANGED << app, fsVars, extractionVars, clock, serviceVars, requests,
                    geo, val, web >>

\* line 224: _validate_params(params)
Validate(t) ==
    /\ At(t, "extraction", "validate")
    /\ th' = IF _validate_params(th[t].params) = None
             THEN [th EXCEPT ![t].pc = "profile",
                             ![t].validated = TRUE,
                             ![t].vparams = th[t].params]
             ELSE Raise(t, "ExtractionError", _validate_params(th[t].params))
    /\ UNCHANGED << app, fsVars, extractionVars, clock, serviceVars, requests,
                    geo, val, web >>

\* line 225: x_profile, z_profile = _get_airfoil_profile(df)
Profile(t) ==
    /\ At(t, "extraction", "profile")
    /\ th' = IF _get_airfoil_profile(th[t].df).err = None
             THEN [th EXCEPT ![t].pc = "build", ![t].has_profile = TRUE]
             ELSE Raise(t, _get_airfoil_profile(th[t].df).kind,
                        _get_airfoil_profile(th[t].df).err)
    /\ UNCHANGED << app, fsVars, extractionVars, clock, serviceVars, requests,
                    geo, val, web >>

\* line 227: mesh = _build_wing_mesh(x_profile, z_profile, params); the mesh
\* is the value of _build_wing_mesh for the thread's profile and params
Build(t) ==
    /\ At(t, "extraction", "build")
    /\ th' = IF BuildError(_get_airfoil_profile(th[t].df).profile) = None
             THEN [th EXCEPT ![t].pc = "export",
                             ![t].built = TRUE,
                             ![t].lparams = th[t].params,
                             ![t].policy = "lofted"]
             ELSE Raise(t, "ExtractionError",
                        BuildError(_get_airfoil_profile(th[t].df).profile))
    /\ UNCHANGED << app, fsVars, extractionVars, clock, serviceVars, requests,
                    geo, val, web >>

\* lines 229-252: the file wing_<timestamp>.glb is written, the metadata
\* computed and (output_path, metadata) returned
Export(t) ==
    /\ At(t, "extraction", "export")
    /\ \/ /\ generated' =
               [generated EXCEPT ![clock] =
                   [by |-> t, params |-> th[t].lparams, table |-> th[t].df,
                    writes |-> generated[clock].writes + 1]]
          /\ th' = [th EXCEPT ![t].pc = "done",
                              ![t].out = [status |-> "ok", detail |-> None,
                                          file |-> clock,
                                          metadata |-> ExtractionMetadata(th[t].params)]]
       \/ /\ UNCHANGED generated
          /\ th' = Raise(t, "ExtractionError", "Failed to export GLB")
    /\ UNCHANGED << app, fsVars, _df_cache, reads, extracts, clock, serviceVars,
                    requests, geo, val, web >>

\* the call has returned or raised; the thread is free for the next request
Return(t) ==
    /\ app \in {"extraction", "service"}
    /\ th[t].pc = "done"
    /\ th' = [th EXCEPT ![t] = IdleThread]
    /\ UNCHANGED << app, fsVars, extractionVars, clock, serviceVars, requests,
                    geo, val, web >>

\* a second passes
Tick ==
    /\ app \in {"extraction", "service"}
    /\ clock < MaxClock
    /\ clock' = clock + 1
    /\ UNCHANGED << app, fsVars, extractionVars, serviceVars, requests, th,
                    geo, val, web >>

----------------------------------------------------------------------------
(* services.py, the service program and generate_and_upload_wing.          *)

\* the initialisers the host calls at startup: load_airfoil_data(),
\* initialize_gcs_client(), initialize_gemini_client()
Startup ==
    /\ app = "service"
    /\ ~started
    /\ started' = TRUE
    /\ LET present == csv_exists \/ archive = "ok"
       IN  /\ csv_exists' = present
           /\ df_airfoils' = IF present /\ csv_file # "unreadable"
                             THEN csv_file ELSE None
    /\ storage_client' \in BOOLEAN
    /\ gemini_client' \in BOOLEAN
    /\ UNCHANGED << app, archive, csv_file, extractionVars, clock, tmp_files,
                    bucket, requests, th, geo, val, web >>

\* generate_and_upload_wing(prompt_data) is entered
ServiceStart(t) ==
    /\ app = "service"
    /\ started
    /\ th[t].pc = "idle"
    /\ requests < MaxRequests
    /\ requests' = requests + 1
    /\ th' = [th EXCEPT ![t] = [IdleThread EXCEPT !.pc = "guards",
                                                  !.kind = "service",
                                                  !.prompt = "plain"]]
    /\ UNCHANGED << app, fsVars, extractionVars, clock, serviceVars, geo, val, web >>

\* lines 253-258: the three availability checks
Guards(t) ==
    /\ At(t, "service", "guards")
    /\ th' = IF df_airfoils = None
             THEN Raise(t, "ConnectionError", "Airfoil data is unavailable.")
             ELSE IF ~storage_client
             THEN Raise(t, "ConnectionError", "GCS client is not initialized.")
             ELSE IF ~gemini_client
             THEN Raise(t, "ConnectionError", "Gemini client is not initialized.")
             ELSE [th EXCEPT ![t].pc = "extract"]
    /\ UNCHANGED << app, fsVars, extractionVars, clock, serviceVars, requests,
                    geo, val, web >>

\* line 261: params = extract_parameters_from_prompt(prompt_data['prompt']);
\* the language model answers with a parameter set, or the call fails
ExtractParameters(t) ==
    /\ At(t, "service", "extract")
    /\ \/ \E answer \in GeminiAnswers :
             th' = [th EXCEPT ![t].pc = "validate", ![t].params = answer]
       \/ th' = Raise(t, "ValueError", "Failed to extract valid wing parameters")
    /\ UNCHANGED << app, fsVars, extractionVars, clock, serviceVars, requests,
                    geo, val, web >>

\* line 264: validate_wing_parameters(params)
ServiceValidate(t) ==
    /\ At(t, "service", "validate")
    /\ th' = IF validate_wing_parameters(th[t].params) = None
             THEN [th EXCEPT ![t].pc = "coords",
                             ![t].validated = TRUE,
                             ![t].vparams = th[t].params]
             ELSE Raise(t, "ValueError", validate_wing_parameters(th[t].params))
    /\ UNCHANGED << app, fsVars, extractionVars, clock, serviceVars, requests,
                    geo, val, web >>

\* lines 267-278: get_airfoil_coords(), the blob name, and the temporary
\* file, which is created empty
Coords(t) ==
    /\ At(t, "service", "coords")
    /\ IF get_airfoil_coords(df_airfoils).found
       THEN /\ th' = [th EXCEPT ![t].pc = "export_wing",
                                ![t].df = df_airfoils,
                                ![t].has_profile = TRUE,
                                ![t].tmp = t,
                                ![t].out = [NoOut EXCEPT !.file = clock]]
            /\ tmp_files' = tmp_files \cup {t}
       ELSE /\ th' = IF get_airfoil_coords(df_airfoils).raised
                     THEN Raise(t, "KeyError", "airfoilName")
                     ELSE Raise(t, "ValueError", "Airfoil name not found in dataset.")
            /\ UNCHANGED tmp_files
    /\ UNCHANGED << app, fsVars, extractionVars, clock, started, df_airfoils,
                    storage_client, gemini_client, bucket, requests, geo, val, web >>

\* line 282: export_3d_wing(...): the point cloud of the stations
\* (CloudVertices of the thread's profile and params), its convex hull, the
\* GLB written to the temporary file, the metrics
ExportWing(t) ==
    /\ At(t, "service", "export_wing")
    /\ LET p == th[t].params
           m == ExportMetrics(p.root_chord, p.semi_span, p.taper_ratio)
       IN  \/ th' = [th EXCEPT ![t].pc = "upload",
                               ![t].built = TRUE,
                               ![t].lparams = p,
                               ![t].policy = "convex_hull",
                               ![t].out.metadata =
                                   [total_span |-> m.total_span,
                                    wing_area |-> m.wing_area,
                                    has_ar |-> TRUE,
                                    ar_num |-> m.ar_num,
                                    ar_den |-> m.ar_den]]
           \/ th' = [th EXCEPT ![t].pc = "finally",
                               ![t].lparams = p,
                               ![t].out.status = "ValueError",
                               ![t].out.detail = "Failed to create 3D mesh"]
           \/ th' = [th EXCEPT ![t].pc = "finally",
                               ![t].built = TRUE,
                               ![t].lparams = p,
                               ![t].policy = "convex_hull",
                               ![t].out.status = "ConnectionError",
                               ![t].out.detail = "Failed to export GLB file"]
    /\ UNCHANGED << app, fsVars, extractionVars, clock, serviceVars, requests,
                    geo, val, web >>

\* lines 290-306: the upload of the temporary file, and the result
Upload(t) ==
    /\ At(t, "service", "upload")
    /\ \/ /\ bucket' = bucket \cup
                 {[ts |-> th[t].out.file, params |-> th[t].lparams]}
          /\ th' = [th EXCEPT ![t].pc = "finally", ![t].out.status = "ok"]
       \/ /\ UNCHANGED bucket
          /\ th' = [th EXCEPT ![t].pc = "finally",
                              ![t].out.status = "Exception",
                              ![t].out.detail = "upload failed"]
    /\ UNCHANGED << app, fsVars, extractionVars, clock, started, df_airfoils,
                    storage_client, gemini_client, tmp_files, requests, geo, val, web >>

\* mutation of Finally: the temporary file is not removed
FinallyKeepsFile(t) ==
    /\ At(t, "service", "finally")
    /\ th' = [th EXCEPT ![t].pc = "done"]
    /\ UNCHANGED << app, fsVars, extractionVars, clock, serviceVars, requests,
                    geo, val, web >>

\* lines 308-311: finally: the temporary file is removed when it exists
Finally(t) ==
    /\ At(t, "service", "finally")
    /\ tmp_files' = tmp_files \ {th[t].tmp}
    /\ th' = [th EXCEPT ![t].pc = "done"]
    /\ UNCHANGED << app, fsVars, extractionVars, clock, started, df_airfoils,
                    storage_client, gemini_client, bucket, requests, geo, val, web >>

----------------------------------------------------------------------------
(* The two programs under concurrent callers.                              *)

FileSystems ==
    { <<TRUE, "ok">>, <<FALSE, "ok">>, <<FALSE, "missing">>,
      <<FALSE, "bad">>, <<FALSE, "no_member">> }

CsvFiles == {"unreadable", "slab", "other", "no_column"}

\* the buffers of the first invocation of a run, with its arguments
NoFirst == [params |-> NoParams, lofted |-> EmptyMesh, mesh |-> EmptyMesh]

NoGeo ==
    [pc |-> "off", builder |-> "none", n |-> 0, params |-> NoParams,
     table |-> None, inject |-> "none", lofted |-> EmptyMesh,
     mesh |-> EmptyMesh, log |-> <<>>,
     normals |-> "unset", round |-> 0, first |-> NoFirst]

\* no handler run
NoWeb == [pc |-> "off"]

NoVal ==
    [pc |-> "off", input |-> NoParams, params |-> NoParams,
     extraction |-> None, service |-> None,
     metadata |-> NoMetadata, metrics |-> NoMetrics]

InitPrograms ==
    /\ \E fs \in FileSystems : csv_exists = fs[1] /\ archive = fs[2]
    /\ csv_file \in CsvFiles
    /\ _df_cache = None
    /\ reads = 0
    /\ extracts = 0
    /\ clock = 0
    /\ generated = [ts \in 0..MaxClock |-> NoFile]
    /\ started = FALSE
    /\ df_airfoils = None
    /\ storage_client = FALSE
    /\ gemini_client = FALSE
    /\ tmp_files = {}
    /\ bucket = {}
    /\ requests = 0
    /\ th = [t \in Threads |-> IdleThread]

Init ==
    /\ app \in {"extraction", "service"}
    /\ InitPrograms
    /\ geo = NoGeo
    /\ val = NoVal
    /\ web = NoWeb

Next ==
    \/ \E t \in Threads : GenerateStart(t)
    \/ \E t \in Threads : LoadCheck(t)
    \/ \E t \in Threads : LoadFile(t)
    \/ \E t \in Threads : LoadExtract(t)
    \/ \E t \in Threads : LoadRead(t)
    \/ \E t \in Threads : Parse(t)
    \/ \E t \in Threads : Validate(t)
    \/ \E t \in Threads : Profile(t)
    \/ \E t \in Threads : Build(t)
    \/ \E t \in Threads : Export(t)
    \/ \E t \in Threads : Return(t)
    \/ Tick
    \/ Startup
    \/ \E t \in Threads : ServiceStart(t)
    \/ \E t \in Threads : Guards(t)
    \/ \E t \in Threads : ExtractParameters(t)
    \/ \E t \in Threads : ServiceValidate(t)
    \/ \E t \in Threads : Coords(t)
    \/ \E t \in Threads : ExportWing(t)
    \/ \E t \in Threads : Upload(t)
    \/ \E t \in Threads : Finally(t)

Spec == Init /\ [][Next]_vars

----------------------------------------------------------------------------
(* generate_3d_model under concurrent callers once the dataset is cached.  *)

\* the state a completed _load_dataset leaves: the CSV file is present and
\* its table is held by _df_cache
InitWarm ==
    /\ app = "extraction"
    /\ csv_exists = TRUE
    /\ archive = "ok"
    /\ csv_file \in CsvFiles \ {"unreadable"}
    /\ _df_cache = csv_file
    /\ reads = 1
    /\ extracts \in {0, 1}
    /\ clock = 0
    /\ generated = [ts \in 0..MaxClock |-> NoFile]
    /\ started = FALSE /\ df_airfoils = None
    /\ storage_client = FALSE /\ gemini_client = FALSE
    /\ tmp_files = {} /\ bucket = {}
    /\ requests = 0
    /\ th = [t \in Threads |-> IdleThread]
    /\ geo = NoGeo
    /\ val = NoVal
    /\ web = NoWeb

NextWarm ==
    \/ \E t \in Threads : GenerateStart(t)
    \/ \E t \in Threads : LoadCheck(t)
    \/ \E t \in Threads : Parse(t)
    \/ \E t \in Threads : Validate(t)
    \/ \E t \in Threads : Profile(t)
    \/ \E t \in Threads : Build(t)
    \/ \E t \in Threads : Export(t)
    \/ \E t \in Threads : Return(t)
    \/ Tick

SpecWarm == InitWarm /\ [][NextWarm]_vars

----------------------------------------------------------------------------
(* One run of a mesh builder, statement by statement.                      *)

\* tables that hold the airfoil
MeshTables == {"slab", "sharp", "flat", "nan"}

\* validated parameter sets: root chord 0.025 or 2, semi-span 1 or 5, sweep
\* -25, 0 or 25 degrees, taper ratio 0.025, 0.5 or 1
MeshParams ==
    { Params(rc, ss, sw, tr) :
        rc \in {1, R(2)}, ss \in {R(1), R(5)},
        sw \in {-R(25), 0, R(25)}, tr \in {1, R(1) \div 2, R(1)} }

\* a triangle of three coincident vertices put into the mesh before cleanup:
\* none, one vertex index three times, or three new vertices at one position
Inject(mesh, kind) ==
    CASE kind = "none" -> mesh
      [] kind = "same_index" ->
            [mesh EXCEPT !.faces = Append(mesh.faces, <<0, 0, 0>>)]
      [] kind = "coincident" ->
            LET V == Len(mesh.vertices)
                v0 == Vertex(mesh, 0)
            IN  [vertices |-> mesh.vertices \o <<v0, v0, v0>>,
                 faces |-> Append(mesh.faces, <<V, V + 1, V + 2>>)]

InitMesh ==
    /\ app = "mesh"
    /\ csv_exists = TRUE /\ archive = "ok" /\ csv_file = "slab"
    /\ _df_cache = None /\ reads = 0 /\ extracts = 0
    /\ clock = 0
    /\ generated = [ts \in 0..MaxClock |-> NoFile]
    /\ started = FALSE /\ df_airfoils = None
    /\ storage_client = FALSE /\ gemini_client = FALSE
    /\ tmp_files = {} /\ bucket = {}
    /\ requests = 0
    /\ th = [t \in Threads |-> IdleThread]
    /\ val = NoVal
    /\ web = NoWeb
    /\ \E builder \in {"_build_wing_mesh", "export_3d_wing"},
          n \in 2..MaxSections, params \in MeshParams, table \in MeshTables,
          inject \in {"none", "same_index", "coincident"} :
          /\ builder = "export_3d_wing" => inject = "none"
          /\ geo = [NoGeo EXCEPT !.pc = "start", !.builder = builder, !.n = n,
                                 !.params = params, !.table = table,
                                 !.inject = inject]

\* mutation of Loft: the vertex and face lists outlive the call
LoftAccumulating ==
    /\ app \in {"mesh", "twice"}
    /\ geo.pc = "start"
    /\ geo.builder = "_build_wing_mesh"
    /\ LET profile == _get_airfoil_profile(geo.table).profile
           lofted == LoftedMesh(profile, geo.params, geo.n)
           kept == [vertices |-> geo.lofted.vertices \o lofted.vertices,
                    faces |-> geo.lofted.faces \o lofted.faces]
       IN  geo' = [geo EXCEPT !.pc = "cleanup",
                              !.lofted = kept,
                              !.mesh = Inject(kept, geo.inject)]
    /\ UNCHANGED << pipelineVars, val, web >>

\* _get_airfoil_profile(df), then _build_wing_mesh, lines 169-207: sections,
\* faces, trimesh.Trimesh(...)
Loft ==
    /\ app \in {"mesh", "twice"}
    /\ geo.pc = "start"
    /\ geo.builder = "_build_wing_mesh"
    /\ LET profile == _get_airfoil_profile(geo.table).profile
           lofted == LoftedMesh(profile, geo.params, geo.n)
       IN  geo' = [geo EXCEPT !.pc = "cleanup",
                              !.lofted = lofted,
                              !.mesh = Inject(lofted, geo.inject)]
    /\ UNCHANGED << pipelineVars, val, web >>

\* _build_wing_mesh, lines 208-213: the next cleanup call; line 214 returns
\* the mesh after the last one
CleanupCall ==
    /\ app \in {"mesh", "twice"}
    /\ geo.pc = "cleanup"
    /\ LET name == CleanupSteps[Len(geo.log) + 1]
       IN  \E rule \in IF name # "fix_normals" THEN {geo.normals}
                         ELSE IF geo.normals = "unset" THEN NormalsRules
                         ELSE {geo.normals} :
              geo' = [geo EXCEPT
                        !.mesh = CleanupStep(name, geo.mesh,
                                             IF name = "fix_normals"
                                             THEN FlipOf(rule, geo.mesh) ELSE {}),
                        !.normals = rule,
                        !.log = Append(geo.log, name),
                        !.pc = IF Len(geo.log) + 1 = Len(CleanupSteps)
                               THEN "built" ELSE "cleanup"]
    /\ UNCHANGED << pipelineVars, val, web >>

\* export_3d_wing, lines 204-229: the right stations, the mirrored points,
\* the cloud given to convex_hull
Cloud ==
    /\ app = "mesh"
    /\ geo.pc = "start"
    /\ geo.builder = "export_3d_wing"
    /\ LET profile == get_airfoil_coords(geo.table).profile
           p == geo.params
           cloud == CloudVertices(profile, p.root_chord, p.semi_span,
                                  p.sweep_angle_deg, p.taper_ratio, geo.n)
       IN  geo' = [geo EXCEPT !.pc = "built",
                              !.lofted = [vertices |-> cloud, faces |-> <<>>],
                              !.mesh = [vertices |-> cloud, faces |-> <<>>]]
    /\ UNCHANGED << pipelineVars, val, web >>

NextMesh == Loft \/ CleanupCall \/ Cloud

SpecMesh == InitMesh /\ [][NextMesh]_vars

----------------------------------------------------------------------------
(* The lofted builder called again and again in one process.               *)

\* invocations of a run
MaxRounds == 3

\* arguments of the invocations: two validated parameter sets
TwiceParams ==
    { Params(R(2), R(5), R(25), R(1) \div 2), Params(R(2), R(1), 0, R(1)) }

InitTwice ==
    /\ app = "twice"
    /\ csv_exists = TRUE /\ archive = "ok" /\ csv_file = "slab"
    /\ _df_cache = None /\ reads = 0 /\ extracts = 0
    /\ clock = 0
    /\ generated = [ts \in 0..MaxClock |-> NoFile]
    /\ started = FALSE /\ df_airfoils = None
    /\ storage_client = FALSE /\ gemini_client = FALSE
    /\ tmp_files = {} /\ bucket = {}
    /\ requests = 0
    /\ th = [t \in Threads |-> IdleThread]
    /\ val = NoVal
    /\ web = NoWeb
    /\ \E n \in 2..MaxSections, params \in TwiceParams, table \in MeshTables :
          geo = [NoGeo EXCEPT !.pc = "start", !.builder = "_build_wing_mesh",
                              !.n = n, !.params = params, !.table = table,
                              !.round = 1]

\* the mesh has been returned; _get_airfoil_profile and _build_wing_mesh are
\* called again, on the same table, with the same or other parameters
Again ==
    /\ app = "twice"
    /\ geo.pc = "built"
    /\ geo.round < MaxRounds
    /\ \E params \in TwiceParams :
          geo' = [geo EXCEPT
                    !.pc = "start",
                    !.params = params,
                    !.log = <<>>,
                    !.round = geo.round + 1,
                    !.first = IF geo.round = 1
                              THEN [params |-> geo.params, lofted |-> geo.lofted,
                                    mesh |-> geo.mesh]
                              ELSE geo.first]
    /\ UNCHANGED << pipelineVars, val, web >>

NextTwice == Loft \/ CleanupCall \/ Again

SpecTwice == InitTwice /\ [][NextTwice]_vars

----------------------------------------------------------------------------
(* One call of each validator.                                             *)

ValidateInputs ==
    { Params(rc, ss, sw, tr) :
        rc \in {-R(1), 0, 1, R(2)}, ss \in {-R(1), 0, 1, R(5)},
        sw \in {-R(91), -R(90) - 1, -R(90), R(25), R(90), R(90) + 1, R(91)},
        tr \in {-R(1), 0, 1, R(1) \div 2} }

InitValidate ==
    /\ app = "validate"
    /\ csv_exists = TRUE /\ archive = "ok" /\ csv_file = "slab"
    /\ _df_cache = None /\ reads = 0 /\ extracts = 0
    /\ clock = 0
    /\ generated = [ts \in 0..MaxClock |-> NoFile]
    /\ started = FALSE /\ df_airfoils = None
    /\ storage_client = FALSE /\ gemini_client = FALSE
    /\ tmp_files = {} /\ bucket = {}
    /\ requests = 0
    /\ th = [t \in Threads |-> IdleThread]
    /\ geo = NoGeo
    /\ web = NoWeb
    /\ \E params \in ValidateInputs :
          val = [NoVal EXCEPT !.pc = "call", !.input = params, !.params = params]

\* _validate_params(params) returns None or raises ExtractionError(message)
CallValidateParams ==
    /\ app = "validate"
    /\ val.pc = "call"
    /\ val' = [val EXCEPT !.pc = "called_extraction",
                          !.extraction = _validate_params(val.params)]
    /\ UNCHANGED << pipelineVars, geo, web >>

\* validate_wing_parameters(wing_dims) returns None or raises
\* ValueError(message)
CallValidateWingParameters ==
    /\ app = "validate"
    /\ val.pc = "call"
    /\ val' = [val EXCEPT !.pc = "called_service",
                          !.service = validate_wing_parameters(val.params)]
    /\ UNCHANGED << pipelineVars, geo, web >>

NextValidate == CallValidateParams \/ CallValidateWingParameters

SpecValidate == InitValidate /\ [][NextValidate]_vars

----------------------------------------------------------------------------
(* The planform metrics of both builders, computed on the same arguments.  *)

InitMetrics ==
    /\ app = "metrics"
    /\ csv_exists = TRUE /\ archive = "ok" /\ csv_file = "slab"
    /\ _df_cache = None /\ reads = 0 /\ extracts = 0
    /\ clock = 0
    /\ generated = [ts \in 0..MaxClock |-> NoFile]
    /\ started = FALSE /\ df_airfoils = None
    /\ storage_client = FALSE /\ gemini_client = FALSE
    /\ tmp_files = {} /\ bucket = {}
    /\ requests = 0
    /\ th = [t \in Threads |-> IdleThread]
    /\ geo = NoGeo
    /\ web = NoWeb
    /\ \E params \in ValidateInputs :
          val = [NoVal EXCEPT !.pc = "call", !.input = params, !.params = params]

\* generate_3d_model, lines 238-240: total_span, wing_area, aspect_ratio
ComputeMetadata ==
    /\ app = "metrics"
    /\ val.pc \in {"call", "metrics"}
    /\ val' = [val EXCEPT !.pc = IF val.pc = "call" THEN "metadata" ELSE "done",
                          !.metadata = ExtractionMetadata(val.params)]
    /\ UNCHANGED << pipelineVars, geo, web >>

\* export_3d_wing, lines 196-199: total_span, tip_chord, wing_area,
\* aspect_ratio
ComputeMetrics ==
    /\ app = "metrics"
    /\ val.pc \in {"call", "metadata"}
    /\ val' = [val EXCEPT !.pc = IF val.pc = "call" THEN "metrics" ELSE "done",
                          !.metrics = ExportMetrics(val.params.root_chord,
                                                    val.params.semi_span,
                                                    val.params.taper_ratio)]
    /\ UNCHANGED << pipelineVars, geo, web >>

NextMetrics == ComputeMetadata \/ ComputeMetrics

SpecMetrics == InitMetrics /\ [][NextMetrics]_vars

----------------------------------------------------------------------------
(* One call of each profile decoder on a table given row by row.           *)

\* coefficients of the three lowest powers in the decoded rows
UpperCoeffValues == {-2 * SCALING_FACTOR, 0, SCALING_FACTOR}
LowerCoeffValues == {-1, 0, SCALING_FACTOR}

\* airfoil_data.filter(regex=...).iloc[0]: the first row of the airfoil
FirstAirfoilRow(rows) ==
    SelectSeq(rows, LAMBDA row : row.airfoilName = AIRFOIL_NAME)[1]

\* the tables a row of the airfoil is found in: alone, after a row of another
\* airfoil, or before a second row of the same name
TablesOf(row) ==
    LET other == [airfoilName |-> "0012", upper |-> Coeffs(0, 0, 0),
                  lower |-> Coeffs(0, 0, 0)]
        again == [airfoilName |-> AIRFOIL_NAME, upper |-> Coeffs(0, 0, 0),
                  lower |-> Coeffs(0, 0, 0)]
    IN  { <<row>>, <<other, row>>, <<row, again>> }

InitDecode ==
    /\ app = "decode"
    /\ csv_exists = TRUE /\ archive = "ok" /\ csv_file = "slab"
    /\ _df_cache = None /\ reads = 0 /\ extracts = 0
    /\ clock = 0
    /\ generated = [ts \in 0..MaxClock |-> NoFile]
    /\ started = FALSE /\ df_airfoils = None
    /\ storage_client = FALSE /\ gemini_client = FALSE
    /\ tmp_files = {} /\ bucket = {}
    /\ requests = 0
    /\ th = [t \in Threads |-> IdleThread]
    /\ geo = NoGeo
    /\ val = NoVal
    /\ \E u2, u1, u0 \in UpperCoeffValues, l2, l1, l0 \in LowerCoeffValues :
          \E rows \in TablesOf([airfoilName |-> AIRFOIL_NAME,
                                 upper |-> Coeffs(u2, u1, u0),
                                 lower |-> Coeffs(l2, l1, l0)]) :
             web = [pc |-> "decode", rows |-> rows,
                    upper |-> <<u2, u1, u0>>, lower |-> <<l2, l1, l0>>,
                    decoder |-> "none", profile |-> NoProfile]

\* _get_airfoil_profile, lines 139-149, on a table that holds the airfoil
DecodeProfile ==
    /\ app = "decode"
    /\ web.pc = "decode"
    /\ web' = [web EXCEPT !.pc = "decoded",
                          !.decoder = "_get_airfoil_profile",
                          !.profile = ProfileLoop(FirstAirfoilRow(web.rows),
                                                  NumSamples)]
    /\ UNCHANGED << pipelineVars, geo, val >>

\* get_airfoil_coords, lines 121-131, on a table that holds the airfoil
DecodeCoords ==
    /\ app = "decode"
    /\ web.pc = "decode"
    /\ web' = [web EXCEPT !.pc = "decoded",
                          !.decoder = "get_airfoil_coords",
                          !.profile = ProfileLoop(FirstAirfoilRow(web.rows),
                                                  NumSamples)]
    /\ UNCHANGED << pipelineVars, geo, val >>

NextDecode == DecodeProfile \/ DecodeCoords

SpecDecode == InitDecode /\ [][NextDecode]_vars

----------------------------------------------------------------------------
(* services/app.py, the Wing Generator API: startup, /health and           *)
(* /generate-wing.                                                         *)

\* the environment of a startup: GEMINI_API_KEY, and what the constructors
\* GeminiClient(api_key=...) and storage.Client() do
StartupEnvs ==
    [api_key : {"unset", "empty", "set"},
     gemini : {"ok", "raises"},
     storage : {"ok", "raises"}]

InitApi ==
    /\ app = "api"
    /\ csv_exists = TRUE /\ archive = "ok" /\ csv_file = "slab"
    /\ _df_cache = None /\ reads = 0 /\ extracts = 0
    /\ clock = 0
    /\ generated = [ts \in 0..MaxClock |-> NoFile]
    /\ started = FALSE /\ df_airfoils = None
    /\ storage_client = FALSE /\ gemini_client = FALSE
    /\ tmp_files = {} /\ bucket = {}
    /\ requests = 0
    /\ th = [t \in Threads |-> IdleThread]
    /\ geo = NoGeo
    /\ val = NoVal
    /\ \E env \in StartupEnvs :
          web = [pc |-> "boot", env |-> env,
                 gemini_client |-> FALSE, storage_client |-> FALSE,
                 initialized |-> FALSE, health |-> None, answer |-> 0,
                 detail |-> None,
                 llm_calls |-> 0, served |-> 0]

\* lifespan, lines 102-109: initialize_llm_and_storage() inside try / except
\* Exception, then the application serves. initialize_llm_and_storage, lines
\* 36-46: the key check, gemini_client = GeminiClient(...), then
\* storage_client = storage.Client()
Lifespan ==
    /\ app = "api"
    /\ web.pc = "boot"
    /\ LET key == web.env.api_key = "set"
           gemini == key /\ web.env.gemini = "ok"
           storage == gemini /\ web.env.storage = "ok"
       IN  web' = [web EXCEPT !.pc = "serving",
                              !.gemini_client = gemini,
                              !.storage_client = storage,
                              !.initialized = storage]
    /\ UNCHANGED << pipelineVars, geo, val >>

\* health_check, lines 172-175
HealthCheck ==
    /\ app = "api"
    /\ web.pc = "serving"
    /\ web' = [web EXCEPT !.health = IF web.gemini_client THEN "READY"
                                     ELSE "PENDING_INITIALIZATION"]
    /\ UNCHANGED << pipelineVars, geo, val >>

\* generate_wing, lines 122-168: 503 when gemini_client is None; otherwise
\* the language model is called, then the image model; the answer is 200, or
\* 500 with the detail of the call that failed
GenerateWingAnswers ==
    { [status |-> 200, detail |-> None],
      [status |-> 500, detail |-> "Generation pipeline failed"],
      [status |-> 500, detail |-> "Imagen API HTTP Error"],
      [status |-> 500, detail |-> "Image generation failed"] }

GenerateWing ==
    /\ app = "api"
    /\ web.pc = "serving"
    /\ web.served < MaxRequests
    /\ IF ~web.gemini_client
       THEN web' = [web EXCEPT !.served = web.served + 1,
                               !.answer = 503,
                               !.detail = "Service is unavailable."]
       ELSE \E answer \in GenerateWingAnswers :
               web' = [web EXCEPT !.served = web.served + 1,
                                  !.llm_calls = web.llm_calls + 1,
                                  !.answer = answer.status,
                                  !.detail = answer.detail]
    /\ UNCHANGED << pipelineVars, geo, val >>

NextApi == Lifespan \/ HealthCheck \/ GenerateWing

SpecApi == InitApi /\ [][NextApi]_vars

----------------------------------------------------------------------------
(* One call of generate_3d_model on a prompt, made directly or by           *)
(* generate_with_local_model; the dataset is present and the export works. *)

SpanValues == {0, R(4)}
ChordValues == {0, R(3)}
SweepValues == {0, R(91)}
TaperValues == {0, R(1)}

\* the phrases a prompt gives a quantity in: none, the number in front of
\* its name, or the name, a sign and the number
SpanPhrases ==
    {<<>>} \cup UNION { { << Num(v), W("m"), W("wingspan"), W(",") >>,
                          << W("span"), W(":"), Num(v), W(",") >> } : v \in SpanValues }
ChordPhrases ==
    {<<>>} \cup UNION { { << Num(v), W("m"), W("root"), W("chord"), W(",") >>,
                          << W("chord"), W("="), Num(v), W(",") >> } : v \in ChordValues }
SweepPhrases ==
    {<<>>} \cup UNION { { << Num(v), W("degrees"), W("sweep"), W(",") >>,
                          << W("sweep"), W(":"), Num(v), W(",") >> } : v \in SweepValues }
TaperPhrases ==
    {<<>>} \cup UNION { { << W("taper"), W("ratio"), W(":"), Num(v) >>,
                          << W("taper"), W("="), Num(v) >> } : v \in TaperValues }

\* the parameters requested from the local generator
LocalRequests ==
    { Params(root_chord, semi_span, sweep_angle_deg, R(1) \div 2) :
        root_chord \in {R(2), R(3)}, semi_span \in {R(4), R(5)},
        sweep_angle_deg \in {R(10), R(25)} }

\* the prompt generate_with_local_model composes, lines 130-134: "Wing design
\* with root chord {root_chord} m, semi span {semi_span} m, sweep
\* {sweep_angle} degrees, taper ratio {taper_ratio}."
LocalPrompt(root_chord, semi_span, sweep_angle, taper_ratio) ==
    << W("wing"), W("design"), W("with"), W("root"), W("chord"),
       Num(root_chord), W("m"), W(","), W("semi"), W("span"), Num(semi_span),
       W("m"), W(","), W("sweep"), Num(sweep_angle), W("degrees"), W(","),
       W("taper"), W("ratio"), Num(taper_ratio), W(".") >>

NoPayload ==
    [source |-> None, root_chord |-> 0, total_span |-> 0, wing_area |-> 0]

InitParse ==
    /\ app = "parse"
    /\ csv_exists = TRUE /\ archive = "ok" /\ csv_file = "slab"
    /\ _df_cache = None /\ reads = 0 /\ extracts = 0
    /\ clock = 0
    /\ generated = [ts \in 0..MaxClock |-> NoFile]
    /\ started = FALSE /\ df_airfoils = None
    /\ storage_client = FALSE /\ gemini_client = FALSE
    /\ tmp_files = {} /\ bucket = {}
    /\ requests = 0
    /\ th = [t \in Threads |-> IdleThread]
    /\ geo = NoGeo
    /\ val = NoVal
    /\ \/ \E span \in SpanPhrases, chord \in ChordPhrases,
             sweep \in SweepPhrases, taper \in TaperPhrases :
             web = [pc |-> "prompt", caller |-> "direct",
                    requested |-> Params(0, 0, 0, 0),
                    prompt |-> span \o chord \o sweep \o taper,
                    params |-> Params(0, 0, 0, 0), error |-> None,
                    payload |-> NoPayload]
       \/ \E requested \in LocalRequests :
             web = [pc |-> "request", caller |-> "local",
                    requested |-> requested, prompt |-> <<>>,
                    params |-> Params(0, 0, 0, 0), error |-> None,
                    payload |-> NoPayload]

\* generate_with_local_model, lines 125-136: the four numbers are read and
\* the prompt is composed for generate_3d_model
ComposeLocalPrompt ==
    /\ app = "parse"
    /\ web.pc = "request"
    /\ web' = [web EXCEPT !.pc = "prompt",
                          !.prompt = LocalPrompt(web.requested.root_chord,
                                                 web.requested.semi_span,
                                                 web.requested.sweep_angle_deg,
                                                 web.requested.taper_ratio)]
    /\ UNCHANGED << pipelineVars, geo, val >>

\* generate_3d_model, line 222: params = _parse_prompt(prompt)
ParsePrompt ==
    /\ app = "parse"
    /\ web.pc = "prompt"
    /\ web' = [web EXCEPT !.pc = "parsed", !.params = _parse_prompt(web.prompt)]
    /\ UNCHANGED << pipelineVars, geo, val >>

\* generate_3d_model, lines 223-251: _validate_params, then the mesh is
\* exported and the metadata computed from params; generate_with_local_model,
\* lines 137-158, wraps an ExtractionError or builds its payload from the
\* requested root_chord and the metadata
BuildModel ==
    /\ app = "parse"
    /\ web.pc = "parsed"
    /\ LET error == _validate_params(web.params)
           metadata == ExtractionMetadata(web.params)
       IN  web' = [web EXCEPT
                     !.pc = "done",
                     !.error = error,
                     !.payload =
                        IF error # None THEN NoPayload
                        ELSE [source |-> IF web.caller = "local" THEN "local"
                                         ELSE "extraction",
                              root_chord |-> IF web.caller = "local"
                                             THEN web.requested.root_chord
                                             ELSE web.params.root_chord,
                              total_span |-> metadata.total_span,
                              wing_area |-> metadata.wing_area]]
    /\ UNCHANGED << pipelineVars, geo, val >>

NextParse == ComposeLocalPrompt \/ ParsePrompt \/ BuildModel

SpecParse == InitParse /\ [][NextParse]_vars

----------------------------------------------------------------------------
(* DreamFusion client (vertex_ai.py, with the imports of the HEAD side of  *)
(* its import block); one call of generate_model on a prompt.              *)

\* longest prompt of the model, in characters
MaxPromptLen == 2

\* a URI is its scheme and the segments after "scheme://"
Uri(scheme, rest) == [scheme |-> scheme, rest |-> rest]
NoUri == Uri("none", <<>>)
EmptyUri == Uri("", <<>>)

FALLBACK_MODEL_URL ==
    Uri("https", << "raw.githubusercontent.com", "KhronosGroup",
                    "DamagedHelmet.glb" >>)

\* the environment of a call: the variables read with os.getenv, the files
\* and the answers of the Vertex AI client
VertexEnvs ==
    [project_id : {"unset", "", "set"},
     credentials_path : {"unset", "missing", "unloadable", "ok"},
     credentials_json : {"unset", "bad", "ok"},
     init : {"ok", "Exception"},
     model : {"ok", "GoogleAPICallError", "ValueError", "Exception"},
     predict : {"ok", "GoogleAPICallError", "Exception"},
     predictions : {"none", "empty", "str_gs", "str_https", "str_empty",
                    "dict_gcsUri", "dict_empty_uri", "dict_other", "number"}]

\* prompt.strip()
RECURSIVE lstrip(_)
lstrip(text) ==
    IF text # <<>> /\ Head(text) = " " THEN lstrip(Tail(text)) ELSE text

RECURSIVE rstrip(_)
rstrip(text) ==
    IF text # <<>> /\ text[Len(text)] = " "
    THEN rstrip(SubSeq(text, 1, Len(text) - 1)) ELSE text

strip(text) == rstrip(lstrip(text))

\* _fallback
_fallback(prompt, reason) ==
    [raised |-> None, url |-> FALLBACK_MODEL_URL, provider |-> "fallback",
     reason |-> reason, prompt |-> prompt]

\* _load_credentials: whether credentials are returned (None otherwise)
_load_credentials(env) ==
    IF env.credentials_path # "unset" THEN env.credentials_path = "ok"
    ELSE IF env.credentials_json # "unset" THEN env.credentials_json = "ok"
    ELSE FALSE

\* _extract_output_uri: NoUri stands for None
_extract_output_uri(predictions) ==
    CASE predictions \in {"none", "empty"} -> NoUri
      [] predictions = "str_gs" -> Uri("gs", << "bucket", "wing.glb" >>)
      [] predictions = "str_https" -> Uri("https", << "host", "wing.glb" >>)
      [] predictions = "str_empty" -> EmptyUri
      [] predictions = "dict_gcsUri" -> Uri("gs", << "bucket", "out", "wing.glb" >>)
      [] predictions = "dict_empty_uri" -> EmptyUri
      [] predictions \in {"dict_other", "number"} -> NoUri

\* _normalise_output_uri
_normalise_output_uri(uri) ==
    IF uri.scheme = "gs"
    THEN Uri("https", << "storage.googleapis.com" >> \o uri.rest)
    ELSE uri

\* mutation of generate_model: the model load catches GoogleAPICallError and
\* ValueError only
generate_model_narrow(prompt, env) ==
    LET cleaned_prompt == strip(prompt)
        output_uri == _extract_output_uri(env.predictions)
    IN  IF cleaned_prompt = <<>>
        THEN [raised |-> "ValueError", url |-> NoUri, provider |-> None,
              reason |-> None, prompt |-> cleaned_prompt]
        ELSE IF env.project_id \in {"unset", ""}
        THEN _fallback(cleaned_prompt, "GOOGLE_PROJECT_ID missing")
        ELSE IF ~_load_credentials(env)
        THEN _fallback(cleaned_prompt, "Service account credentials unavailable")
        ELSE IF env.init # "ok"
        THEN _fallback(cleaned_prompt, "Unable to initialize Vertex AI client")
        ELSE IF env.model = "GoogleAPICallError"
        THEN _fallback(cleaned_prompt, "DreamFusion model access failed")
        ELSE IF env.model = "ValueError"
        THEN _fallback(cleaned_prompt, "Invalid DreamFusion model identifier")
        ELSE IF env.model = "Exception"
        THEN [raised |-> "Exception", url |-> NoUri, provider |-> None,
              reason |-> None, prompt |-> cleaned_prompt]
        ELSE IF env.predict # "ok"
        THEN _fallback(cleaned_prompt, "DreamFusion prediction failed")
        ELSE IF output_uri \in {NoUri, EmptyUri}
        THEN _fallback(cleaned_prompt, "DreamFusion response missing output URI")
        ELSE [raised |-> None, url |-> _normalise_output_uri(output_uri),
              provider |-> "vertex-ai", reason |-> None,
              prompt |-> cleaned_prompt]

\* generate_model: the exception raised, or the url and the provider, note
\* and prompt of the metadata returned
generate_model(prompt, env) ==
    LET cleaned_prompt == strip(prompt)
        output_uri == _extract_output_uri(env.predictions)
    IN  IF cleaned_prompt = <<>>
        THEN [raised |-> "ValueError", url |-> NoUri, provider |-> None,
              reason |-> None, prompt |-> cleaned_prompt]
        ELSE IF env.project_id \in {"unset", ""}
        THEN _fallback(cleaned_prompt, "GOOGLE_PROJECT_ID missing")
        ELSE IF ~_load_credentials(env)
        THEN _fallback(cleaned_prompt, "Service account credentials unavailable")
        ELSE IF env.init # "ok"
        THEN _fallback(cleaned_prompt, "Unable to initialize Vertex AI client")
        ELSE IF env.model = "GoogleAPICallError"
        THEN _fallback(cleaned_prompt, "DreamFusion model access failed")
        ELSE IF env.model = "ValueError"
        THEN _fallback(cleaned_prompt, "Invalid DreamFusion model identifier")
        ELSE IF env.model = "Exception"
        THEN _fallback(cleaned_prompt, "DreamFusion model load failed")
        ELSE IF env.predict # "ok"
        THEN _fallback(cleaned_prompt, "DreamFusion prediction failed")
        ELSE IF output_uri \in {NoUri, EmptyUri}
        THEN _fallback(cleaned_prompt, "DreamFusion response missing output URI")
        ELSE [raised |-> None, url |-> _normalise_output_uri(output_uri),
              provider |-> "vertex-ai", reason |-> None,
              prompt |-> cleaned_prompt]

\* the prompts of the model: the texts of blanks and letters
VertexPrompts ==
    UNION { [1..n -> {" ", "w"}] : n \in 0..MaxPromptLen }

NoModel ==
    [raised |-> None, url |-> NoUri, provider |-> None, reason |-> None,
     prompt |-> <<>>]

InitVertex ==
    /\ app = "vertex"
    /\ csv_exists = TRUE /\ archive = "ok" /\ csv_file = "slab"
    /\ _df_cache = None /\ reads = 0 /\ extracts = 0
    /\ clock = 0
    /\ generated = [ts \in 0..MaxClock |-> NoFile]
    /\ started = FALSE /\ df_airfoils = None
    /\ storage_client = FALSE /\ gemini_client = FALSE
    /\ tmp_files = {} /\ bucket = {}
    /\ requests = 0
    /\ th = [t \in Threads |-> IdleThread]
    /\ geo = NoGeo
    /\ val = NoVal
    /\ \E prompt \in VertexPrompts, env \in VertexEnvs :
          web = [pc |-> "call", prompt |-> prompt, env |-> env,
                 result |-> NoModel]

\* one call generate_model(prompt)
GenerateModel ==
    /\ app = "vertex"
    /\ web.pc = "call"
    /\ web' = [web EXCEPT !.pc = "returned",
                          !.result = generate_model(web.prompt, web.env)]
    /\ UNCHANGED << pipelineVars, geo, val >>

NextVertex == GenerateModel

SpecVertex == InitVertex /\ [][NextVertex]_vars

----------------------------------------------------------------------------
(* Wing generators (wing_generator.py) and one POST /generate request      *)
(* (routers/ai.py generate_wing_model).                                    *)

WingGeneratorError == "WingGeneratorError"

\* what a generator hands to the router: the exception raised, or the source
\* and the viewer url of the payload
Failed(exc) == [raised |-> exc, source |-> None, url |-> NoUri]
Payload(source, url) == [raised |-> None, source |-> source, url |-> url]

\* generate_with_remote_api; the parameters are numbers, so _require_numeric
\* returns. remote is what the remote service does: the request fails
\* (httpx.HTTPError), the body is not JSON (response.json() raises), the
\* payload has no public_url, the asset cannot be downloaded, or all works
generate_with_remote_api(remote) ==
    CASE remote = "http_error" -> Failed(WingGeneratorError)
      [] remote = "bad_json" -> Failed("JSONDecodeError")
      [] remote = "missing_url" -> Failed(WingGeneratorError)
      [] remote = "download_error" -> Failed(WingGeneratorError)
      [] remote = "ok" -> Payload("remote", Uri("http", << "host", "models", "remote_wing.glb" >>))

\* generate_with_local_model seen from the router: generate_3d_model returns,
\* raises ExtractionError, or raises another exception
generate_with_local_model(local) ==
    CASE local = "ExtractionError" -> Failed(WingGeneratorError)
      [] local = "KeyError" -> Failed("KeyError")
      [] local = "ok" -> Payload("local", Uri("http", << "host", "models", "wing.glb" >>))

\* "DreamFusion wing concept with root chord ... taper ratio ...."
structured_prompt == << "w", " ", "w" >>

\* mutation of generate_with_dreamfusion: the fallback asset is refused
generate_with_dreamfusion_strict(prompt_text, env) ==
    LET original_prompt == strip(prompt_text)
        combined_prompt == IF original_prompt # <<>>
                           THEN original_prompt \o << "\n", "\n" >> \o structured_prompt
                           ELSE structured_prompt
        model == generate_model(combined_prompt, env)
    IN  IF model.raised # None THEN Failed(WingGeneratorError)
        ELSE IF model.url \in {NoUri, EmptyUri} THEN Failed(WingGeneratorError)
        ELSE IF model.provider = "fallback" THEN Failed(WingGeneratorError)
        ELSE Payload("dreamfusion", _normalise_output_uri(model.url))

\* generate_with_dreamfusion: any exception of generate_model and a missing
\* url become WingGeneratorError; viewer_url is metadata["url"] with gs://
\* rewritten
generate_with_dreamfusion(prompt_text, env) ==
    LET original_prompt == strip(prompt_text)
        combined_prompt == IF original_prompt # <<>>
                           THEN original_prompt \o << "\n", "\n" >> \o structured_prompt
                           ELSE structured_prompt
        model == generate_model(combined_prompt, env)
    IN  IF model.raised # None THEN Failed(WingGeneratorError)
        ELSE IF model.url \in {NoUri, EmptyUri} THEN Failed(WingGeneratorError)
        ELSE Payload("dreamfusion", _normalise_output_uri(model.url))

\* the order of the auto mode
AutoChain == << "remote", "dreamfusion", "local" >>

\* mutation of NextGenerator: the auto mode tries local before dreamfusion
NextGeneratorLocalSecond(generator_mode, calls, status) ==
    IF status # 0 THEN None
    ELSE IF generator_mode # "auto"
         THEN (IF calls = <<>> THEN generator_mode ELSE None)
    ELSE << "remote", "local", "dreamfusion" >>[Len(calls) + 1]

\* generate_wing_model, lines 46-91: the generator called next, None once
\* the request is answered (status is 0 until then)
NextGenerator(generator_mode, calls, status) ==
    IF status # 0 THEN None
    ELSE IF generator_mode # "auto"
         THEN (IF calls = <<>> THEN generator_mode ELSE None)
    ELSE AutoChain[Len(calls) + 1]

\* mutation of Answer: the auto mode goes on after any exception of the
\* remote and DreamFusion generators
AnswerAnyError(generator_mode, name, raised) ==
    IF raised = None THEN 200
    ELSE IF generator_mode # "auto"
         THEN (IF raised = WingGeneratorError THEN 502 ELSE 500)
    ELSE IF name # "local" THEN 0
    ELSE 500

\* mutation of Answer: an explicit mode answers 500 to WingGeneratorError
AnswerExplicit500(generator_mode, name, raised) ==
    IF raised = None THEN 200
    ELSE IF generator_mode # "auto" THEN 500
    ELSE IF raised = WingGeneratorError /\ name # "local" THEN 0
    ELSE 500

\* generate_wing_model: the HTTP status after generator `name` returned or
\* raised, 0 when the auto mode goes on to the next generator. The explicit
\* modes catch WingGeneratorError only (502, _wrap_error's default); any
\* other exception leaves the handler and the server answers 500
Answer(generator_mode, name, raised) ==
    IF raised = None THEN 200
    ELSE IF generator_mode # "auto"
         THEN (IF raised = WingGeneratorError THEN 502 ELSE 500)
    ELSE IF raised = WingGeneratorError /\ name # "local" THEN 0
    ELSE 500

\* the environments of the DreamFusion step of a request
RouterVertexEnvs ==
    { env \in VertexEnvs :
        /\ env.project_id # "" /\ env.credentials_path = "ok"
        /\ env.credentials_json = "unset"
        /\ env.init = "ok" /\ env.model = "ok"
        /\ env.predict # "Exception"
        /\ env.predictions \in {"none", "str_gs"} }

RouterEnvs ==
    [remote : {"ok", "http_error", "bad_json", "missing_url", "download_error"},
     vertex : RouterVertexEnvs,
     local : {"ok", "ExtractionError", "KeyError"}]

InitRouter ==
    /\ app = "router"
    /\ csv_exists = TRUE /\ archive = "ok" /\ csv_file = "slab"
    /\ _df_cache = None /\ reads = 0 /\ extracts = 0
    /\ clock = 0
    /\ generated = [ts \in 0..MaxClock |-> NoFile]
    /\ started = FALSE /\ df_airfoils = None
    /\ storage_client = FALSE /\ gemini_client = FALSE
    /\ tmp_files = {} /\ bucket = {}
    /\ requests = 0
    /\ th = [t \in Threads |-> IdleThread]
    /\ geo = NoGeo
    /\ val = NoVal
    /\ \E generator \in {"auto", "remote", "local", "dreamfusion"},
          prompt_text \in {<<>>, << "w" >>}, env \in RouterEnvs :
          web = [pc |-> "request", generator |-> generator,
                 prompt_text |-> prompt_text, env |-> env,
                 calls |-> <<>>, outcomes |-> <<>>,
                 status |-> 0, source |-> None, url |-> NoUri]

\* the handler after generator `name` returned `result`: the payload is the
\* response, or the exception is turned into the answer, or the next
\* generator is tried
Routed(name, result) ==
    LET status == Answer(web.generator, name, result.raised)
    IN  [web EXCEPT !.pc = IF status = 0 THEN "running" ELSE "answered",
                    !.calls = Append(web.calls, name),
                    !.outcomes = Append(web.outcomes, result.raised),
                    !.status = status,
                    !.source = result.source,
                    !.url = result.url]

\* lines 46-51 and 68-74
CallRemote ==
    /\ app = "router"
    /\ NextGenerator(web.generator, web.calls, web.status) = "remote"
    /\ web' = Routed("remote", generate_with_remote_api(web.env.remote))
    /\ UNCHANGED << pipelineVars, geo, val >>

\* lines 60-65 and 76-82
CallDreamfusion ==
    /\ app = "router"
    /\ NextGenerator(web.generator, web.calls, web.status) = "dreamfusion"
    /\ web' = Routed("dreamfusion",
                     generate_with_dreamfusion(web.prompt_text, web.env.vertex))
    /\ UNCHANGED << pipelineVars, geo, val >>

\* lines 53-58 and 84-91
CallLocal ==
    /\ app = "router"
    /\ NextGenerator(web.generator, web.calls, web.status) = "local"
    /\ web' = Routed("local", generate_with_local_model(web.env.local))
    /\ UNCHANGED << pipelineVars, geo, val >>

NextRouter == CallRemote \/ CallDreamfusion \/ CallLocal

SpecRouter == InitRouter /\ [][NextRouter]_vars

----------------------------------------------------------------------------
(* Properties.                                                             *)

\* the four conditions of a valid wing specification
ValidSpec(p) ==
    /\ p.root_chord > 0
    /\ p.semi_span > 0
    /\ p.taper_ratio > 0
    /\ p.sweep_angle_deg >= -R(90)
    /\ p.sweep_angle_deg <= R(90)

\* nothing of either program has been touched
ProgramUntouched ==
    /\ _df_cache = None /\ reads = 0 /\ extracts = 0
    /\ generated = [ts \in 0..MaxClock |-> NoFile]
    /\ df_airfoils = None /\ tmp_files = {} /\ bucket = {}
    /\ csv_exists = TRUE /\ archive = "ok"

\* C1: each validator raises exactly when root_chord <= 0, semi_span <= 0,
\* taper_ratio <= 0 or the sweep angle is outside [-90, 90], accepts every
\* other input, and changes neither its argument nor any program state.
C1_ValidatorContract ==
    /\ val.pc = "called_extraction" =>
          ((val.extraction = None) <=> ValidSpec(val.input))
    /\ val.pc = "called_service" =>
          ((val.service = None) <=> ValidSpec(val.input))
    /\ val.pc \in {"called_extraction", "called_service"} =>
          val.params = val.input /\ ProgramUntouched

C1_Witness ==
    /\ val.pc = "called_service"
    /\ val.input = Params(R(2), R(5), R(91), R(1) \div 2)
    /\ val.service # None

\* C2: in both pipelines a mesh is built only after the validator accepted
\* exactly the parameters that are lofted; a request whose parameters were
\* not accepted builds no mesh, has no temporary file and returns no file,
\* and every file written or uploaded carries valid parameters.
C2_ValidatedBeforeLoft ==
    /\ \A t \in Threads :
          /\ th[t].built =>
                /\ th[t].validated
                /\ th[t].lparams = th[t].vparams
                /\ ValidSpec(th[t].lparams)
          /\ ~th[t].validated =>
                /\ ~th[t].built
                /\ th[t].tmp = 0
                /\ th[t].out.file = -1
                /\ th[t].out.status # "ok"
    /\ \A ts \in 0..MaxClock :
          generated[ts].by # 0 => ValidSpec(generated[ts].params)
    /\ \A blob \in bucket : ValidSpec(blob.params)

C2_Witness ==
    \E t, u \in Threads :
        /\ th[t].pc = "done" /\ th[t].built /\ th[t].out.status = "ok"
        /\ th[u].pc = "done" /\ ~th[u].validated
        /\ ~ValidSpec(th[u].params) /\ th[u].params # NoParams

\* C3: with a readable CSV file and a sound archive, pd.read_csv and
\* archive.extract are each executed at most once, whatever the interleaving
\* of the callers of _load_dataset.
C3_LoadedOnce ==
    (csv_file # "unreadable" /\ archive = "ok") => (reads <= 1 /\ extracts <= 1)

\* the builder of the run has produced its vertices
Lofted == geo.builder = "_build_wing_mesh" /\ geo.pc \in {"cleanup", "built"}
Exported == geo.builder = "export_3d_wing" /\ geo.pc = "built"

\* points of one profile loop: 2N for N samples per surface
ProfilePoints == 2 * NumSamples

\* point pt of station s in a station-major vertex list
PointOf(vertices, s, pt) == vertices[(s - 1) * ProfilePoints + pt]

\* C4: before cleanup the lofted mesh has exactly n_sections * num_points
\* vertices and 2 * (n_sections - 1) * num_points triangles, for every valid
\* parameter set, station count and profile.
C4_LoftedCounts ==
    Lofted =>
        /\ Len(geo.lofted.vertices) = geo.n * ProfilePoints
        /\ Len(geo.lofted.faces) = 2 * (geo.n - 1) * ProfilePoints

C4_Witness ==
    /\ Lofted
    /\ geo.params = Params(R(2), R(5), R(25), R(1) \div 2)
    /\ geo.n = 4
    /\ Len(geo.lofted.vertices) = 4 * ProfilePoints
    /\ Len(geo.lofted.faces) = 6 * ProfilePoints

\* C5: every index of every triangle emitted by _build_wing_mesh is a valid
\* vertex index, 0 <= index < n_sections * num_points.
C5_ValidIndices ==
    Lofted =>
        \A f \in 1..Len(geo.lofted.faces) : \A k \in 1..3 :
            /\ geo.lofted.faces[f][k] >= 0
            /\ geo.lofted.faces[f][k] < geo.n * ProfilePoints

C5_Witness ==
    /\ Lofted
    /\ geo.n >= 3
    /\ \E f \in 1..Len(geo.lofted.faces) : \E k \in 1..3 :
          geo.lofted.faces[f][k] = geo.n * ProfilePoints - 1
    /\ \E f \in 1..Len(geo.lofted.faces) : \E k \in 1..3 :
          geo.lofted.faces[f][k] = 0

\* a triangle with two equal indices, two coincident vertices, or three
\* vertices on one line
ZeroArea(mesh, face) ==
    LET a == Vertex(mesh, face[1])
        b == Vertex(mesh, face[2])
        c == Vertex(mesh, face[3])
    IN  \/ Cardinality({face[1], face[2], face[3]}) < 3
        \/ a = b \/ b = c \/ a = c
        \/ CrossIsZero([k \in 1..3 |-> b[k] - a[k]], [k \in 1..3 |-> c[k] - a[k]])

\* C6: the mesh returned by _build_wing_mesh has valid indices, finite
\* vertices, no triangle of zero area and no unreferenced vertex, also when a
\* triangle of three coincident vertices was put in before cleanup.
C6_CleanMesh ==
    (geo.builder = "_build_wing_mesh" /\ geo.pc = "built") =>
        /\ \A f \in 1..Len(geo.mesh.faces) : \A k \in 1..3 :
              geo.mesh.faces[f][k] \in 0..(Len(geo.mesh.vertices) - 1)
        /\ \A v \in 0..(Len(geo.mesh.vertices) - 1) :
              /\ IsFiniteVertex(Vertex(geo.mesh, v))
              /\ \E f \in 1..Len(geo.mesh.faces) : \E k \in 1..3 :
                    geo.mesh.faces[f][k] = v
        /\ \A f \in 1..Len(geo.mesh.faces) : ~ZeroArea(geo.mesh, geo.mesh.faces[f])

C6_Witness ==
    /\ geo.builder = "_build_wing_mesh" /\ geo.pc = "built"
    /\ geo.table = "sharp" /\ geo.inject = "coincident"
    /\ Len(geo.mesh.faces) > 0
    /\ Len(geo.mesh.faces) < Len(geo.lofted.faces)
    /\ Len(geo.mesh.vertices) < Len(geo.lofted.vertices)

\* the order of cleanup stated for the pipeline
StatedCleanupOrder ==
    << "remove_degenerate_faces", "remove_duplicate_faces",
       "remove_infinite_values", "merge_vertices",
       "remove_unreferenced_vertices", "fix_normals" >>

\* C7: the cleanup calls made so far are, in order, degenerate removal,
\* duplicate removal, non-finite removal, vertex merging, unreferenced
\* removal, normal recomputation.
C7_CleanupOrder ==
    \A i \in 1..Len(geo.log) : geo.log[i] = StatedCleanupOrder[i]

\* C8: no request carries a policy choice (generate_and_upload_wing and
\* generate_3d_model take none), so every mesh built is the lofted
\* triangulation and none is a convex hull.
C8_LoftedByDefault ==
    \A t \in Threads : th[t].built => th[t].policy = "lofted"

\* C9: every point (x, y, z) with y > 0 has the point (x, -y, z) at the same
\* profile index of the mirrored station: station n + 1 - s of
\* _build_wing_mesh, and the station appended for station s (s >= 2) by
\* export_3d_wing, whose stations 2..n are the ones with y > 0.
C9_Mirrored ==
    /\ Lofted =>
          \A s \in 1..geo.n : \A pt \in 1..ProfilePoints :
              LET v == PointOf(geo.lofted.vertices, s, pt)
                  m == PointOf(geo.lofted.vertices, geo.n + 1 - s, pt)
              IN  v[2] > 0 => m = <<v[1], -v[2], v[3]>>
    /\ Exported =>
          /\ Len(geo.mesh.vertices) = (2 * geo.n - 1) * ProfilePoints
          /\ \A s \in 1..geo.n : \A pt \in 1..ProfilePoints :
                LET v == PointOf(geo.mesh.vertices, s, pt)
                IN  /\ (v[2] > 0) <=> (s >= 2)
                    /\ s >= 2 =>
                          PointOf(geo.mesh.vertices, geo.n + s - 1, pt)
                              = <<v[1], -v[2], v[3]>>

C9_Witness ==
    /\ Exported
    /\ geo.n >= 3
    /\ geo.params.sweep_angle_deg = R(25)
    /\ \E i \in 1..Len(geo.mesh.vertices) :
          geo.mesh.vertices[i][1] > 0 /\ geo.mesh.vertices[i][2] < 0

\* C10: the stations of the vertex list are 2S in number, S of them on the
\* right (y >= 0), uniformly spaced from a root station at y = 0 to a tip
\* station at y = semi_span, each of 2N points with one y.  Station y values
\* are numerators over FP * (n - 1).
C10_Stations ==
    (Lofted \/ Exported) =>
        LET V == geo.lofted.vertices
            count == Len(V) \div ProfilePoints
            ys == [s \in 1..count |-> PointOf(V, s, 1)[2]]
            S == Cardinality({s \in 1..count : ys[s] >= 0})
            span == geo.params.semi_span * (geo.n - 1)
        IN  /\ Len(V) = count * ProfilePoints
            /\ \A s \in 1..count : \A pt \in 1..ProfilePoints :
                  PointOf(V, s, pt)[2] = ys[s]
            /\ \E s \in 1..count : ys[s] = 0
            /\ \E s \in 1..count : ys[s] = span
            /\ \A s \in 1..count : ys[s] >= 0 =>
                  \E k \in 0..(S - 1) : ys[s] * (S - 1) = k * span
            /\ count = 2 * S

\* stations of the vertex list the builder produced
StationCount == Len(geo.lofted.vertices) \div ProfilePoints

\* chord of station s measured on the vertices: the x extent of the station,
\* which is xden * TAN_DEN times the chord numerator (over FP * FP * (n - 1))
StationExtent(s) ==
    LET xs == {PointOf(geo.lofted.vertices, s, pt)[1] : pt \in 1..ProfilePoints}
    IN  (CHOOSE hi \in xs : \A x \in xs : x <= hi)
          - (CHOOSE lo \in xs : \A x \in xs : lo <= x)

\* a chord c / FP as a station extent
ExtentOf(c) == (NumSamples - 1) * TAN_DEN * c * FP * (geo.n - 1)

\* C11: every station of every wing built from validated parameters, by
\* _build_wing_mesh or by export_3d_wing, has a chord of at least 0.05.
C11_ChordFloor ==
    (Lofted \/ Exported) =>
        \A s \in 1..StationCount : StationExtent(s) >= ExtentOf(CHORD_MIN)

\* C12 as stated: with taper_ratio = 1 the chord of every station of
\* _build_wing_mesh equals root_chord, for any root_chord > 0.
C12_ConstantChord ==
    (Lofted /\ geo.params.taper_ratio = R(1)) =>
        \A s \in 1..StationCount : StationExtent(s) = ExtentOf(geo.params.root_chord)

\* C12, amended: with taper_ratio = 1 the chord of every station of
\* _build_wing_mesh is the same and equals max(root_chord, 0.05).
C12_ConstantChordClamped ==
    (Lofted /\ geo.params.taper_ratio = R(1)) =>
        \A s \in 1..StationCount :
            StationExtent(s) = ExtentOf(Max(geo.params.root_chord, CHORD_MIN))

C12_Witness ==
    /\ Lofted
    /\ geo.params.taper_ratio = R(1)
    /\ geo.params.root_chord < CHORD_MIN
    /\ geo.n >= 3
    /\ \A s \in 1..StationCount : StationExtent(s) = ExtentOf(CHORD_MIN)

\* C13: with sweep_angle_deg = 0 the leading-edge offset of every station of
\* _build_wing_mesh is 0 and every x coordinate is profile_x * chord.
C13_NoSweepNoOffset ==
    (Lofted /\ geo.params.sweep_angle_deg = 0) =>
        LET profile == _get_airfoil_profile(geo.table).profile
        IN  \A s \in 1..geo.n :
              /\ leading_edge_offsets(geo.params, geo.n)[s] = 0
              /\ \A pt \in 1..ProfilePoints :
                    PointOf(geo.lofted.vertices, s, pt)[1]
                        = profile.x[pt] * chord_lengths(geo.params, geo.n)[s] * TAN_DEN

C13_Witness ==
    /\ Lofted
    /\ geo.params.sweep_angle_deg = 0
    /\ geo.params.semi_span = R(5)
    /\ geo.n >= 3
    /\ \E s \in 1..geo.n : \E pt \in 1..ProfilePoints :
          PointOf(geo.lofted.vertices, s, pt)[1] > 0

\* vertex index of profile point pt (0-based) of station sec (0-based)
IndexOf(sec, pt) == sec * ProfilePoints + pt

\* C14: for every pair of adjacent stations (sec, sec + 1) and every profile
\* index pt in 0..2N-1 the two triangles [v0, v1, v2], [v2, v1, v3] over
\* v0 = (sec, pt), v1 = (sec + 1, pt), v2 = (sec, (pt + 1) mod 2N),
\* v3 = (sec + 1, (pt + 1) mod 2N) are emitted, the wrap-around quad included.
C14_ClosedLoop ==
    Lofted =>
        \A sec \in 0..(geo.n - 2) : \A pt \in 0..(ProfilePoints - 1) :
            LET v0 == IndexOf(sec, pt)
                v1 == IndexOf(sec + 1, pt)
                v2 == IndexOf(sec, (pt + 1) % ProfilePoints)
                v3 == IndexOf(sec + 1, (pt + 1) % ProfilePoints)
                at == 2 * (sec * ProfilePoints + pt)
            IN  /\ geo.lofted.faces[at + 1] = <<v0, v1, v2>>
                /\ geo.lofted.faces[at + 2] = <<v2, v1, v3>>

C14_Witness ==
    /\ Lofted
    /\ geo.n >= 3
    /\ \E f \in 1..Len(geo.lofted.faces) :
          geo.lofted.faces[f] =
              <<IndexOf(1, ProfilePoints - 1), IndexOf(2, ProfilePoints - 1), IndexOf(1, 0)>>

\* the metadata of generate_3d_model / the metrics of export_3d_wing are there
HasMetadata == val.pc \in {"metadata", "done"}
HasMetrics == val.pc \in {"metrics", "done"}

\* the example of the planform formulas: root 2, taper 0.5, semi-span 5
ExampleWing(params) ==
    /\ params.root_chord = R(2)
    /\ params.taper_ratio = R(1) \div 2
    /\ params.semi_span = R(5)

\* C15: total_span = 2 * semi_span and wing_area = semi_span * (root_chord +
\* root_chord * taper_ratio) in generate_3d_model; this area equals the
\* trapezoid area ((root + tip) / 2) * total_span of export_3d_wing; for
\* root 2, taper 0.5, semi-span 5 the span is 10, the area 15 and the aspect
\* ratio 100 / 15 in both.
C15_PlanformMetrics ==
    LET p == val.input
        area == p.semi_span * (p.root_chord * FP + p.root_chord * p.taper_ratio)
    IN  /\ HasMetadata =>
              /\ val.metadata.total_span = 2 * p.semi_span
              /\ val.metadata.wing_area = area
              /\ ExampleWing(p) =>
                    /\ val.metadata.total_span = R(10)
                    /\ val.metadata.wing_area = 15 * FP * FP * FP
                    /\ val.metadata.has_ar
                    /\ val.metadata.ar_num * 15 = val.metadata.ar_den * 100
        /\ HasMetrics =>
              /\ val.metrics.total_span = 2 * p.semi_span
              /\ val.metrics.wing_area = 2 * area
              /\ ExampleWing(p) =>
                    /\ val.metrics.wing_area = 15 * 2 * FP * FP * FP
                    /\ val.metrics.ar_num * 15 = val.metrics.ar_den * 100
        /\ val.pc = "done" => val.metrics.wing_area = 2 * val.metadata.wing_area

C15_Witness ==
    /\ val.pc = "done"
    /\ ExampleWing(val.input)
    /\ val.metadata.wing_area = 15 * FP * FP * FP
    /\ val.metrics.total_span = R(10)

\* C16: in generate_3d_model and in export_3d_wing, aspect_ratio is
\* total_span^2 / wing_area when wing_area > 0, and is absent, with no
\* division attempted, when wing_area <= 0.
C16_AspectRatioGuard ==
    /\ HasMetadata =>
          IF val.metadata.wing_area > 0
          THEN /\ val.metadata.has_ar
               /\ val.metadata.ar_num * val.metadata.wing_area
                    = val.metadata.ar_den * val.metadata.total_span
                        * val.metadata.total_span * FP
          ELSE ~val.metadata.has_ar
    /\ HasMetrics =>
          IF val.metrics.wing_area > 0
          THEN /\ val.metrics.has_ar
               /\ val.metrics.ar_num * val.metrics.wing_area
                    = val.metrics.ar_den * val.metrics.total_span
                        * val.metrics.total_span * 2 * FP
          ELSE ~val.metrics.has_ar /\ ~val.metrics.raised

\* C17: a generate_3d_model call that has ended either returned the output
\* path and metadata after every stage succeeded, or raised exactly one
\* ExtractionError and returned nothing; no other exception type escapes.
C17_TypedAllOrNothing ==
    \A t \in Threads :
        (th[t].kind = "extraction" /\ th[t].pc = "done") =>
            \/ /\ th[t].out.status = "ok"
               /\ th[t].df # None /\ th[t].validated /\ th[t].has_profile
               /\ th[t].built
               /\ th[t].out.file >= 0
               /\ generated[th[t].out.file].writes >= 1
            \/ /\ th[t].out.status = "ExtractionError"
               /\ th[t].out.detail # None
               /\ th[t].out.file = -1
               /\ th[t].out.metadata = NoMetadata

\* C18: the output files of generate_3d_model invocations that run in
\* parallel on a warm cache are distinct.
C18_DistinctOutputs ==
    \A t1, t2 \in Threads :
        (/\ t1 # t2
         /\ th[t1].pc = "done" /\ th[t1].out.status = "ok"
         /\ th[t2].pc = "done" /\ th[t2].out.status = "ok")
            => th[t1].out.file # th[t2].out.file

\* no _load_dataset call is between its cache check and its read
NoLoadInFlight ==
    \A t \in Threads : th[t].pc \notin {"load_file", "load_extract", "load_read"}

Quadratic(c, xk, xden) ==
    (c[1] * xk * xk + c[2] * xk * xden + c[3] * xden * xden)
        * Pow(xden, MaxPower - 2)

\* C21: the decoded profile has 2N points: the first N are the upper surface
\* from x = 1 down to x = 0, the other N the lower surface from x = 0 up to
\* x = 1, so the first and the last point have x = 1; the upper values are
\* the polynomial divided by 1,000,000 and the lower values are undivided.
C21_ProfileLoop ==
    (app = "decode" /\ web.pc = "decoded") =>
        LET N == NumSamples
            p == web.profile
        IN  /\ Len(p.x) = 2 * N /\ Len(p.z) = 2 * N
            /\ p.x[1] = p.xden /\ p.x[2 * N] = p.xden
            /\ p.x[N] = 0 /\ p.x[N + 1] = 0
            /\ \A k \in 1..N :
                  /\ p.x[k] = N - k
                  /\ p.x[N + k] = k - 1
                  /\ p.z[k] * SCALING_FACTOR = Quadratic(web.upper, p.x[k], p.xden)
                  /\ p.z[N + k] = Quadratic(web.lower, p.x[N + k], p.xden)

C21_Witness ==
    /\ app = "decode" /\ web.pc = "decoded"
    /\ web.decoder = "get_airfoil_coords"
    /\ Len(web.rows) = 2
    /\ web.profile.z[1] = Pow(web.profile.xden, MaxPower)
    /\ web.profile.z[2 * NumSamples] = SCALING_FACTOR * Pow(web.profile.xden, MaxPower)

\* the messages of the three availability checks of generate_and_upload_wing
Unavailable ==
    { "Airfoil data is unavailable.", "GCS client is not initialized.",
      "Gemini client is not initialized." }

\* C26: a temporary file exists only while the call that created it is
\* between its creation and its finally block, so none is left when
\* generate_and_upload_wing returns or raises; and a call that finds the
\* airfoil data, the storage client or the Gemini client unavailable raises
\* ConnectionError having created no file, called no language model and
\* uploaded nothing.
C26_NoTempLeft ==
    /\ \A f \in tmp_files :
          \E t \in Threads :
             /\ th[t].tmp = f
             /\ th[t].kind = "service"
             /\ th[t].pc \in {"export_wing", "upload", "finally"}
    /\ \A t \in Threads :
          (th[t].kind = "service" /\ th[t].pc = "done") =>
              /\ th[t].tmp \notin tmp_files
              /\ (df_airfoils = None \/ ~storage_client \/ ~gemini_client) =>
                    /\ th[t].out.status = "ConnectionError"
                    /\ th[t].out.detail \in Unavailable
                    /\ th[t].tmp = 0
                    /\ th[t].params = NoParams
                    /\ ~th[t].has_profile /\ ~th[t].built
                    /\ bucket = {}

C26_Witness ==
    \E t \in Threads :
        /\ th[t].kind = "service" /\ th[t].pc = "done"
        /\ th[t].out.status = "Exception"
        /\ th[t].tmp = t
        /\ tmp_files = {}

\* C27: gemini_client is set exactly when initialize_llm_and_storage
\* completed; after a startup whose initialization failed, /health reports
\* PENDING_INITIALIZATION and every /generate-wing request is answered 503
\* without a call of the language model.
C27_ReadyIffInitialized ==
    (app = "api" /\ web.pc = "serving") =>
        /\ web.gemini_client <=> web.initialized
        /\ ~web.initialized =>
              /\ web.health \in {None, "PENDING_INITIALIZATION"}
              /\ web.answer \in {0, 503}
              /\ web.llm_calls = 0

\* C28: the wing the local generator builds has the requested dimensions:
\* its total_span is twice the requested semi_span.
C28_LocalUsesRequested ==
    (app = "parse" /\ web.caller = "local" /\ web.pc = "done"
        /\ web.error = None) =>
        web.payload.total_span = 2 * web.requested.semi_span

\* C30: the parsed parameters are root_chord >= 0.5, semi_span >= 1.0,
\* taper_ratio >= 0.1 and sweep >= 0 for every prompt, so _validate_params
\* fails only with the sweep message, for a sweep above 90 degrees.
C30_ParsedLowerBounds ==
    (app = "parse" /\ web.pc \in {"parsed", "done"}) =>
        /\ web.params.root_chord >= R(1) \div 2
        /\ web.params.semi_span >= R(1)
        /\ web.params.taper_ratio >= R(1) \div 10
        /\ web.params.sweep_angle_deg >= 0
        /\ (web.pc = "done" /\ web.error # None) =>
              /\ web.error = "sweep angle must be between -90 and 90 degrees"
              /\ web.params.sweep_angle_deg > R(90)

\* a prompt giving a chord, a span and a taper ratio of 0 and a sweep of 91
\* degrees was parsed to the clamps and rejected for its sweep
C30_Witness ==
    /\ app = "parse" /\ web.pc = "done" /\ web.caller = "direct"
    /\ web.prompt = << Num(0), W("m"), W("wingspan"), W(","),
                       W("chord"), W("="), Num(0), W(","),
                       Num(R(91)), W("degrees"), W("sweep"), W(","),
                       W("taper"), W("="), Num(0) >>
    /\ web.params = Params(R(1) \div 2, R(1), R(91), R(1) \div 10)
    /\ web.error = "sweep angle must be between -90 and 90 degrees"

\* whether a step of generate_model fails in the environment
StepFails(env) ==
    \/ env.project_id \in {"unset", ""}
    \/ ~_load_credentials(env)
    \/ env.init # "ok" \/ env.model # "ok" \/ env.predict # "ok"
    \/ env.predictions \notin {"str_gs", "str_https", "dict_gcsUri"}

\* C23: generate_model raises ValueError for an empty or whitespace-only
\* prompt; for every other prompt it raises nothing and returns a non-empty
\* url, which is FALLBACK_MODEL_URL with provider "fallback" whenever a step
\* failed.
C23_FallbackNeverRaises ==
    (app = "vertex" /\ web.pc = "returned") =>
        IF \A i \in 1..Len(web.prompt) : web.prompt[i] = " "
        THEN web.result.raised = "ValueError"
        ELSE /\ web.result.raised = None
             /\ web.result.url \notin {NoUri, EmptyUri}
             /\ StepFails(web.env) =>
                   /\ web.result.url = FALLBACK_MODEL_URL
                   /\ web.result.provider = "fallback"

\* the model load raised an exception that is neither GoogleAPICallError nor
\* ValueError, and the call returned the fallback asset
C23_Witness ==
    /\ app = "vertex" /\ web.pc = "returned"
    /\ web.prompt = << " ", "w" >>
    /\ web.env.project_id = "set" /\ web.env.credentials_path = "ok"
    /\ web.env.init = "ok" /\ web.env.model = "Exception"
    /\ web.result.raised = None
    /\ web.result.url = FALLBACK_MODEL_URL
    /\ web.result.provider = "fallback"
    /\ web.result.prompt = << "w" >>

\* C22: in auto mode the generators are called in the order remote,
\* DreamFusion, local, each only after all earlier ones raised
\* WingGeneratorError, and a 200 response is the payload of the generator
\* called last, the first that succeeded.
C22_AutoOrder ==
    (app = "router" /\ web.generator = "auto") =>
        /\ Len(web.calls) <= Len(AutoChain)
        /\ web.calls = SubSeq(AutoChain, 1, Len(web.calls))
        /\ \A i \in 1..(Len(web.calls) - 1) :
              web.outcomes[i] = WingGeneratorError
        /\ web.status = 200 =>
              /\ web.outcomes[Len(web.calls)] = None
              /\ web.source = web.calls[Len(web.calls)]

\* the remote service answered without public_url and DreamFusion returned a
\* Vertex AI model
C22_Witness ==
    /\ app = "router" /\ web.generator = "auto"
    /\ web.env.remote = "missing_url"
    /\ web.calls = << "remote", "dreamfusion" >>
    /\ web.outcomes = << WingGeneratorError, None >>
    /\ web.status = 200 /\ web.source = "dreamfusion"
    /\ web.url = Uri("https", << "storage.googleapis.com", "bucket", "wing.glb" >>)

\* C24: a request with generator remote, local or dreamfusion calls that
\* generator only, once; when it raises WingGeneratorError the answer is 502.
C24_ExplicitOnly ==
    (app = "router" /\ web.generator # "auto") =>
        /\ web.calls \in {<<>>, << web.generator >>}
        /\ web.pc = "answered" =>
              /\ web.calls = << web.generator >>
              /\ web.outcomes[1] = WingGeneratorError => web.status = 502
              /\ web.outcomes[1] = None =>
                    web.status = 200 /\ web.source = web.generator

\* an explicit local request whose extraction failed was answered 502
C24_Witness ==
    /\ app = "router" /\ web.generator = "local" /\ web.pc = "answered"
    /\ web.env.local = "ExtractionError"
    /\ web.calls = << "local" >>
    /\ web.outcomes = << WingGeneratorError >>
    /\ web.status = 502

\* C25: in auto mode an exception other than WingGeneratorError of the
\* remote or the DreamFusion generator is answered 500 at once: that call is
\* the last of the request.
C25_UnexpectedStops ==
    (app = "router" /\ web.generator = "auto") =>
        \A i \in 1..Len(web.calls) :
            (/\ web.calls[i] \in {"remote", "dreamfusion"}
             /\ web.outcomes[i] \notin {None, WingGeneratorError}) =>
                /\ i = Len(web.calls)
                /\ web.pc = "answered"
                /\ web.status = 500

\* the remote service answered with a body that is not JSON
C25_Witness ==
    /\ app = "router" /\ web.generator = "auto" /\ web.pc = "answered"
    /\ web.env.remote = "bad_json"
    /\ web.calls = << "remote" >>
    /\ web.outcomes = << "JSONDecodeError" >>
    /\ web.status = 500

====
